---- MODULE Spec2Model ----
(***************************************************************************)
(* Model of the cluster-app front end (src/unnamed/part_001, the latest    *)
(* revision of App.js): the React component App as a state machine.        *)
(*   - hook state (useState / useRef) are the VARIABLES,                   *)
(*   - useMemo values are operators over the hook state,                   *)
(*   - event handlers, the passive-effect flush and the animation-frame    *)
(*     callback are the actions.                                           *)
(* A state update re-renders before anything else runs: a handler's render *)
(* and the flush of its passive effects (RunEffects, repeated while an     *)
(* effect sets state) complete before the next handler or frame callback.  *)
(* JS numbers are binary floating-point numbers, rounded after every       *)
(* operation (see Precision); NaN and the infinities are <<0, 0>>.         *)
(* JS strings are sequences of one-character strings.                      *)
(***************************************************************************)
EXTENDS Integers, Sequences, FiniteSets, TLC

\* ------------------------------------------------------------------------
\* Bounds of the model
\* ------------------------------------------------------------------------
\* latest value of performance.now() the model explores (milliseconds)
MaxTime == 400
\* longest key list explored for colorForKey
MaxKeys == 17
\* the longest list of raw field values a summary is computed from
MaxVals == 4
\* the longest list of raw prices a histogram is computed from
MaxPrices == 3
\* the most mapping rows a code table is built from
MaxRows == 2
\* the longest state label spelled from the small alphabet
MaxLabel == 3
\* the longest list of coordinates a Domain is computed from
MaxCoords == 3
\* bits of the significand of a number
Precision == 13

\* ------------------------------------------------------------------------
\* JS numbers: binary floating point.  A finite number is the rational
\* <<n, d>> in lowest terms, NaN (and +-Infinity) is <<0, 0>>.  Every
\* arithmetic operation returns the exact result rounded to the nearest
\* number with a significand of Precision bits, ties to even, as IEEE 754
\* prescribes; binary64 has 53 bits, and the model narrows the significand
\* so that the products stay within TLC's integers.
\* ------------------------------------------------------------------------
Abs(x) == IF x < 0 THEN -x ELSE x

RECURSIVE Gcd(_, _)
Gcd(a, b) == IF b = 0 THEN a ELSE Gcd(b, a % b)

NaN == <<0, 0>>

Rat(n, d) ==
  IF d = 0 THEN NaN
  ELSE LET g == Gcd(Abs(n), Abs(d))
           s == IF d < 0 THEN -1 ELSE 1
       IN  <<(s * n) \div g, (s * d) \div g>>

I(n) == <<n, 1>>

isFinite(a) == a[2] # 0

\* the common denominator of two finite numbers: the larger power of two
commonDen(a, b) == IF a[2] >= b[2] THEN a[2] ELSE b[2]


\* 2^k, tabulated
pow2 == [k \in 0..30 |-> 2^k]

\* the number of binary digits of n >= 0
bitLenOfByte == [n \in 0..255 |-> Cardinality({k \in 0..7 : pow2[k] <= n})]
RECURSIVE BitLen(_)
BitLen(n) == IF n < 256 THEN bitLenOfByte[n] ELSE 8 + BitLen(n \div 256)

\* log2 of the denominator of a finite number, which is a power of two
Log2(d) == BitLen(d) - 1

\* n / d rounded to an integer, ties to even
tiesToEven(n, d) ==
  IF 2 * (n % d) > d \/ (2 * (n % d) = d /\ (n \div d) % 2 = 1)
  THEN (n \div d) + 1 ELSE n \div d

\* m * 2^e
scaled(m, e) == IF e >= 0 THEN <<m * pow2[e], 1>> ELSE Rat(m, pow2[0 - e])

signum(n) == IF n < 0 THEN -1 ELSE 1

\* n / 2^k with the lowest `drop` bits of n rounded away, ties to even
roundBits(n, k, drop) ==
  IF drop <= 0 THEN scaled(n, 0 - k)
  ELSE scaled(signum(n) * tiesToEven(Abs(n), pow2[drop]), drop - k)

\* n / 2^k rounded to a significand of Precision bits
roundDyadic(n, k) == roundBits(n, k, BitLen(Abs(n)) - Precision)

\* s * (n / d) * 2^e with the quotient n / d, of Precision + drop bits,
\* rounded to Precision bits, ties to even
roundDrop(s, n, d, e, drop) == scaled(s * tiesToEven(n, d * pow2[drop]), e + drop)

roundWide(s, n, d, e) == roundDrop(s, n, d, e, BitLen(n \div d) - Precision)

\* n / d is first scaled by 2^up to more than Precision bits
roundUp(s, n, d, e, up) ==
  roundWide(s, n * pow2[IF up > 0 THEN up ELSE 0],
            d * pow2[IF up < 0 THEN 0 - up ELSE 0], e - up)

\* s * (n / d) * 2^e for n, d > 0, rounded to a significand of Precision bits
roundQuotient(s, n, d, e) ==
  roundUp(s, n, d, e, Precision + 1 + BitLen(d) - BitLen(n))

\* a numeric literal of the source
Lit(n, d) == IF n = 0 THEN I(0) ELSE roundQuotient(signum(n), Abs(n), d, 0)

Add(a, b) == IF isFinite(a) /\ isFinite(b)
             THEN roundDyadic(a[1] * (commonDen(a, b) \div a[2])
                                + b[1] * (commonDen(a, b) \div b[2]),
                              Log2(commonDen(a, b)))
             ELSE NaN
Sub(a, b) == Add(a, <<-b[1], b[2]>>)
Mul(a, b) == IF isFinite(a) /\ isFinite(b)
             THEN roundDyadic(a[1] * b[1], Log2(a[2]) + Log2(b[2]))
             ELSE NaN
\* x / 0 is +-Infinity or NaN in JS: not finite either way
Div(a, b) == IF ~(isFinite(a) /\ isFinite(b) /\ b[1] # 0) THEN NaN
             ELSE IF a[1] = 0 THEN I(0)
             ELSE roundQuotient(signum(a[1]) * signum(b[1]), Abs(a[1]), Abs(b[1]),
                                Log2(b[2]) - Log2(a[2]))
\* comparisons with NaN are false
Lt(a, b) == /\ isFinite(a) /\ isFinite(b)
            /\ a[1] * (commonDen(a, b) \div a[2]) < b[1] * (commonDen(a, b) \div b[2])
Le(a, b) == /\ isFinite(a) /\ isFinite(b)
            /\ a[1] * (commonDen(a, b) \div a[2]) <= b[1] * (commonDen(a, b) \div b[2])
AbsQ(a) == IF isFinite(a) THEN <<Abs(a[1]), a[2]>> ELSE NaN

\* ------------------------------------------------------------------------
\* JS strings: sequences of characters; Alphabet is in code-unit order
\* ------------------------------------------------------------------------
Alphabet ==
  <<" ", "$", ",", "-", ".",
    "0", "1", "2", "3", "4", "5", "6", "7", "8", "9",
    "A", "B", "C", "D", "E", "F", "G", "H", "I", "J", "K", "L", "M",
    "N", "O", "P", "Q", "R", "S", "T", "U", "V", "W", "X", "Y", "Z",
    "_",
    "a", "b", "c", "d", "e", "f", "g", "h", "i", "j", "k", "l", "m",
    "n", "o", "p", "q", "r", "s", "t", "u", "v", "w", "x", "y", "z">>

codeOf == [c \in {Alphabet[i] : i \in 1..Len(Alphabet)} |->
             CHOOSE i \in 1..Len(Alphabet) : Alphabet[i] = c]
Code(c) == codeOf[c]

isDigit(c) == Code(c) >= Code("0") /\ Code(c) <= Code("9")
isUpper(c) == Code(c) >= Code("A") /\ Code(c) <= Code("Z")
isLower(c) == Code(c) >= Code("a") /\ Code(c) <= Code("z")
\* \w of a regular expression
isWordChar(c) == isDigit(c) \/ isUpper(c) \/ isLower(c) \/ c = "_"

toUpperCase(s) ==
  [i \in 1..Len(s) |->
     IF isLower(s[i]) THEN Alphabet[Code(s[i]) - Code("a") + Code("A")] ELSE s[i]]
toLowerCase(s) ==
  [i \in 1..Len(s) |->
     IF isUpper(s[i]) THEN Alphabet[Code(s[i]) - Code("A") + Code("a")] ELSE s[i]]

RECURSIVE trimStart(_)
trimStart(s) == IF s # <<>> /\ Head(s) = " " THEN trimStart(Tail(s)) ELSE s
RECURSIVE trimEnd(_)
trimEnd(s) ==
  IF s # <<>> /\ s[Len(s)] = " " THEN trimEnd(SubSeq(s, 1, Len(s) - 1)) ELSE s
trim(s) == trimEnd(trimStart(s))

\* the default Array.prototype.sort order of strings: by code units
RECURSIVE StrLess(_, _)
StrLess(a, b) ==
  IF b = <<>> THEN FALSE
  ELSE IF a = <<>> THEN TRUE
  ELSE IF Head(a) # Head(b) THEN Code(Head(a)) < Code(Head(b))
  ELSE StrLess(Tail(a), Tail(b))

\* decimal digits of a natural number
RECURSIVE Digits(_)
Digits(n) ==
  IF n < 10 THEN <<Alphabet[Code("0") + n]>>
  ELSE Append(Digits(n \div 10), Alphabet[Code("0") + (n % 10)])

\* String(x) of a number (the model's numbers print as integers, or n/d)
NumToString(a) ==
  IF ~isFinite(a) THEN <<"N", "a", "N">>
  ELSE LET sign == IF a[1] < 0 THEN <<"-">> ELSE <<>>
           int  == sign \o Digits(Abs(a[1]))
       IN  IF a[2] = 1 THEN int ELSE int \o <<".">> \o Digits(a[2])

RECURSIVE DigitsValue(_)
DigitsValue(s) ==
  IF s = <<>> THEN 0
  ELSE 10 * DigitsValue(SubSeq(s, 1, Len(s) - 1)) + (Code(s[Len(s)]) - Code("0"))

\* Number(s) of a string: whitespace is trimmed, "" is 0, a signed run of
\* digits is its value, anything else is NaN
signedDigits(sgn, body) ==
  IF body # <<>> /\ \A i \in 1..Len(body) : isDigit(body[i])
  THEN Lit(sgn * DigitsValue(body), 1)
  ELSE NaN

trimmedToNumber(t) ==
  IF t = <<>> THEN I(0)
  ELSE IF Head(t) = "-" THEN signedDigits(-1, Tail(t))
  ELSE signedDigits(1, t)

StringToNumber(s) == trimmedToNumber(trim(s))

\* ------------------------------------------------------------------------
\* JS values of the JSON records: undefined, null, number, string
\* ------------------------------------------------------------------------
Undef == [t |-> "undef", n |-> NaN, s |-> <<>>]
Null == [t |-> "null", n |-> NaN, s |-> <<>>]
Num(k) == [t |-> "num", n |-> I(k), s |-> <<>>]
NumQ(q) == [t |-> "num", n |-> q, s |-> <<>>]
Str(s) == [t |-> "str", n |-> NaN, s |-> s]

\* r?.[f]: a field the object does not have reads as undefined
Get(r, f) == IF f \in DOMAIN r THEN r[f] ELSE Undef

isNullish(v) == v.t \in {"undef", "null"}

\* !!v
Truthy(v) ==
  CASE v.t = "num" -> isFinite(v.n) /\ v.n[1] # 0
    [] v.t = "str" -> v.s # <<>>
    [] OTHER -> FALSE

\* String(v)
String(v) ==
  CASE v.t = "str" -> v.s
    [] v.t = "num" -> NumToString(v.n)
    [] v.t = "null" -> <<"n", "u", "l", "l">>
    [] OTHER -> <<"u", "n", "d", "e", "f", "i", "n", "e", "d">>

\* Number(v)
Number(v) ==
  CASE v.t = "num" -> v.n
    [] v.t = "str" -> StringToNumber(v.s)
    [] v.t = "null" -> I(0)
    [] OTHER -> NaN

\* a ?? b
Coalesce(a, b) == IF isNullish(a) THEN b ELSE a

\* ------------------------------------------------------------------------
\* Module-level constants and pure helpers of the source
\* ------------------------------------------------------------------------
COLORS ==
  <<"#1F77B4", "#FF7F0E", "#2CA02C", "#D62728", "#9467BD",
    "#8C564B", "#E377C2", "#7F7F7F", "#BCBD22", "#17BECF",
    "#F97316", "#14B8A6", "#A855F7", "#22C55E", "#3B82F6">>

findIndexOfValue(allKeys, keyStr) ==
  IF \E i \in 1..Len(allKeys) : allKeys[i] = Str(keyStr)
  THEN (CHOOSE i \in 1..Len(allKeys) :
          /\ allKeys[i] = Str(keyStr)
          /\ \A j \in 1..(i - 1) : allKeys[j] # Str(keyStr)) - 1
  ELSE -1

\* allKeys.findIndex(pred): 0-based index of the first match, or -1
findIndexOfString(allKeys, keyStr) ==
  IF \E i \in 1..Len(allKeys) : String(allKeys[i]) = keyStr
  THEN (CHOOSE i \in 1..Len(allKeys) :
          /\ String(allKeys[i]) = keyStr
          /\ \A j \in 1..(i - 1) : String(allKeys[j]) # keyStr) - 1
  ELSE -1

\* the index expression of colorForKey: (idx >= 0 ? idx : 0) % COLORS.length
colorIndex(idx) == (IF idx >= 0 THEN idx ELSE 0) % Len(COLORS)

\* keys are JS values (numbers in cluster mode, strings in model mode)
colorForKey(key, allKeys) ==
  LET keyStr == String(key)
      idx == findIndexOfString(allKeys, keyStr)
  IN  COLORS[colorIndex(idx) + 1]

lerp(a, b, t) == Add(a, Mul(Sub(b, a), t))

\* a part of the 51-entry table, in source order
US_STATE_ABBR_TO_NAME ==
  <<
    <<<<"C", "A">>, <<"C", "a", "l", "i", "f", "o", "r", "n", "i", "a">>>>,
    <<<<"N", "Y">>, <<"N", "e", "w", " ", "Y", "o", "r", "k">>>>,
    <<<<"T", "X">>, <<"T", "e", "x", "a", "s">>>>
  >>

California == US_STATE_ABBR_TO_NAME[1][2]
NewYork == US_STATE_ABBR_TO_NAME[2][2]
Texas == US_STATE_ABBR_TO_NAME[3][2]

\* optional values: <<>> is null, <<x>> is x
None == <<>>
Some(x) == <<x>>

\* US_STATE_ABBR_TO_NAME[abbr]
abbrToName(abbr) ==
  IF \E i \in 1..Len(US_STATE_ABBR_TO_NAME) : US_STATE_ABBR_TO_NAME[i][1] = abbr
  THEN Some((CHOOSE e \in {US_STATE_ABBR_TO_NAME[i] : i \in 1..Len(US_STATE_ABBR_TO_NAME)} :
               e[1] = abbr)[2])
  ELSE None

US_STATE_NAME_SET == [i \in 1..Len(US_STATE_ABBR_TO_NAME) |-> US_STATE_ABBR_TO_NAME[i][2]]

\* s.match(/\b[A-Z]{2}\b/g): start positions of the two-capital tokens
twoLetterTokens(s) ==
  {i \in 1..(Len(s) - 1) :
     /\ isUpper(s[i]) /\ isUpper(s[i + 1])
     /\ (i = 1 \/ ~isWordChar(s[i - 1]))
     /\ (i + 1 = Len(s) \/ ~isWordChar(s[i + 2]))}

\* (s.match(...) || []).find(tok => US_STATE_ABBR_TO_NAME[tok.toUpperCase()])
embeddedState(s) ==
  LET hits == {i \in twoLetterTokens(s) :
                 abbrToName(toUpperCase(SubSeq(s, i, i + 1))) # None}
  IN  IF hits = {} THEN None
      ELSE LET i == CHOOSE h \in hits : \A k \in hits : h <= k
           IN  abbrToName(toUpperCase(SubSeq(s, i, i + 1)))

\* the lookups without case folding
toStateNameExact(labelRaw) ==
  IF labelRaw = <<>> THEN None
  ELSE
    LET s == trim(labelRaw)
        byName == {i \in 1..Len(US_STATE_NAME_SET) : US_STATE_NAME_SET[i] = s}
    IN  IF abbrToName(s) # None THEN abbrToName(s)
        ELSE IF byName # {}
             THEN Some(US_STATE_NAME_SET[CHOOSE i \in byName : \A j \in byName : i <= j])
        ELSE embeddedState(s)

\* toStateName(labelRaw) for a string labelRaw
toStateName(labelRaw) ==
  IF labelRaw = <<>> THEN None
  ELSE
    LET s == trim(labelRaw)
        up == toUpperCase(s)
        lower == toLowerCase(s)
        byName == {i \in 1..Len(US_STATE_NAME_SET) :
                     toLowerCase(US_STATE_NAME_SET[i]) = lower}
    IN  IF abbrToName(up) # None THEN abbrToName(up)
        ELSE IF byName # {}
             THEN Some(US_STATE_NAME_SET[CHOOSE i \in byName : \A j \in byName : i <= j])
        ELSE embeddedState(s)

STATE_KEYS ==
  <<"ADMARK_STATE", "admark_state", "STATE", "State", "state", "DM_STATE",
    "DM_STATE_CODE", "STATE_ABBR", "state_abbr", "ST", "st">>

\* Math.min(...vals) / Math.max(...vals) of a non-empty list
minOf(vals) ==
  IF \E i \in 1..Len(vals) : ~isFinite(vals[i]) THEN NaN
  ELSE vals[CHOOSE i \in 1..Len(vals) : \A j \in 1..Len(vals) : Le(vals[i], vals[j])]
maxOf(vals) ==
  IF \E i \in 1..Len(vals) : ~isFinite(vals[i]) THEN NaN
  ELSE vals[CHOOSE i \in 1..Len(vals) : \A j \in 1..Len(vals) : Le(vals[j], vals[i])]

\* the padding without the fallback of a zero value to 1 (min || 1)
paddedDomainRelativeEps(vals) ==
  IF Len(vals) = 0 THEN <<I(0), I(1)>>
  ELSE
    LET min0 == minOf(vals)
        max0 == maxOf(vals)
    IN  IF ~isFinite(min0) \/ ~isFinite(max0) THEN <<I(0), I(1)>>
        ELSE
          LET eps == Mul(AbsQ(min0), Lit(5, 100))
              min1 == IF min0 = max0 THEN Sub(min0, eps) ELSE min0
              max1 == IF min0 = max0 THEN Add(max0, eps) ELSE max0
              pad == Mul(Sub(max1, min1), Lit(5, 100))
          IN  <<Sub(min1, pad), Add(max1, pad)>>

paddedDomain(vals) ==
  IF Len(vals) = 0 THEN <<I(0), I(1)>>
  ELSE
    LET min0 == minOf(vals)
        max0 == maxOf(vals)
    IN  IF ~isFinite(min0) \/ ~isFinite(max0) THEN <<I(0), I(1)>>
        ELSE
          LET eps == Mul(AbsQ(IF min0[1] # 0 THEN min0 ELSE I(1)), Lit(5, 100))
              min1 == IF min0 = max0 THEN Sub(min0, eps) ELSE min0
              max1 == IF min0 = max0 THEN Add(max0, eps) ELSE max0
              pad == Mul(Sub(max1, min1), Lit(5, 100))
          IN  <<Sub(min1, pad), Add(max1, pad)>>

easeInOutQuad(t) ==
  IF Lt(t, Rat(1, 2)) THEN Mul(I(2), Mul(t, t))
  ELSE Add(I(-1), Mul(Sub(I(4), Mul(I(2), t)), t))

tweenDomain(from, to, t) ==
  LET e == easeInOutQuad(t)
  IN  <<Add(from[1], Mul(Sub(to[1], from[1]), e)),
        Add(from[2], Mul(Sub(to[2], from[2]), e))>>

\* coercePrice(v): "$" and "," are removed before Number()
RECURSIVE stripDollarComma(_)
stripDollarComma(s) ==
  IF s = <<>> THEN <<>>
  ELSE IF Head(s) \in {"$", ","} THEN stripDollarComma(Tail(s))
  ELSE <<Head(s)>> \o stripDollarComma(Tail(s))

coercePrice(v) ==
  IF isNullish(v) THEN NaN
  ELSE StringToNumber(trim(stripDollarComma(String(v))))

\* ------------------------------------------------------------------------
\* The imported data: ./data/suv_points.json, ./data/pu_points.json and
\* ./data/demos-mapping.json (small instances; absent fields are absent)
\* ------------------------------------------------------------------------
sAce == <<"a", "c", "e">>
sZed == <<"Z", "e", "d">>
sRam == <<"R", "a", "m">>

suvPoints ==
  <<
    [model |-> Str(sAce), emb_x |-> Num(0), emb_y |-> Num(0), cluster |-> Num(0),
     ADMARK_STATE |-> Num(5), FIN_PRICE_UNEDITED |-> Num(29000),
     DEMO_GENDER1 |-> Num(1), OL_MODEL_GRP |-> Str(<<"L", "o", "y", "a", "l">>),
     PV_TAX_INS |-> Num(1)],
    [BLD_DESC_RV_MODEL |-> Str(sZed), emb_x |-> Str(<<"4">>), emb_y |-> Num(2),
     cluster |-> Num(1),
     FIN_PRICE_UNEDITED |-> Str(<<"$", "3", "1", ",", "0", "0", "0">>),
     DEMO_GENDER1 |-> Str(<<"2">>),
     OL_MODEL_GRP |-> Str(<<" ", "l", "o", "y", "a", "l", " ">>),
     PV_TAX_INS_LABEL |-> Str(<<"A", "g", "r", "e", "e">>)]
      @@ ("STATE" :> Str(<<"t", "x">>)),
    [model |-> Str(sAce), emb_x |-> Num(2), emb_y |-> Num(4), cluster |-> Str(<<"1">>),
     ADMARK_STATE |-> Str(<<" ">>), state |-> Str(<<"L", "A", ",", " ", "C", "A">>),
     FIN_PRICE_UNEDITED |-> Null, DEMO_GENDER1 |-> Str(<<" ">>),
     PV_TAX_INS |-> Num(3)],
    [model |-> Str(<<>>), BLD_DESC_RV_MODEL |-> Str(sZed), emb_x |-> Num(1),
     emb_y |-> Num(1), cluster |-> Num(0)],
    [model |-> Str(sZed), emb_x |-> Str(<<"a", "b", "c">>), emb_y |-> Num(1),
     cluster |-> Num(1)],
    [model |-> Null, Model |-> Str(sZed), emb_x |-> Num(-2), emb_y |-> Num(2),
     cluster |-> Num(1), FIN_PRICE_UNEDITED |-> Str(<<"n", "a">>),
     DEMO_GENDER1 |-> Num(2), PV_TAX_INS |-> Null],
    [model |-> Str(sZed), emb_x |-> Null, emb_y |-> Num(6), cluster |-> Num(2),
     FIN_PRICE_UNEDITED |-> Num(112000), DEMO_GENDER1 |-> Num(1),
     OL_MODEL_GRP |-> Str(<<"n", "e", "w">>), PV_TAX_INS |-> Str(<<"1">>)]
      @@ ("STATE" :> Str(<<"o", "h", "i", "o">>))
  >>

puPoints ==
  <<
    [model |-> Str(sAce), emb_x |-> Num(10), emb_y |-> Num(0), cluster |-> Num(0),
     ST |-> Str(<<"T", "X">>), FIN_PRICE_UNEDITED |-> Num(31000)],
    [MODEL |-> Str(sRam), emb_x |-> Num(12), emb_y |-> Num(4), cluster |-> Num(3),
     ADMARK_STATE |-> Str(<<"4", "4">>)],
    [model_name |-> Str(sRam), emb_x |-> Num(14), emb_y |-> Num(2), cluster |-> Num(3),
     state |-> Str(California), FIN_PRICE_UNEDITED |-> Num(45000)],
    [model |-> Str(sRam), emb_x |-> Num(1), emb_y |-> Num(1)]
  >>

demosMapping ==
  <<
    [NAME |-> "ADMARK_STATE", START |-> Num(5), LABEL |-> Str(California)],
    [NAME |-> "ADMARK_STATE", START |-> Str(<<"4", "4">>),
     LABEL |-> Str(<<" ", "T", "X", " ">>)],
    [NAME |-> "", START |-> Num(1), LABEL |-> Str(Texas)],
    [NAME |-> "DEMO_GENDER1", START |-> Num(1), LABEL |-> Str(<<"M">>)],
    [NAME |-> "DEMO_GENDER1", START |-> Num(2), LABEL |-> Str(<<"F">>)],
    [NAME |-> "PV_TAX_INS", START |-> Num(1),
     LABEL |-> Str(<<"S", "t", "r", "o", "n", "g", "l", "y", " ", "A", "g", "r", "e", "e">>)],
    [NAME |-> "PV_TAX_INS", START |-> Num(3),
     LABEL |-> Str(<<"N", "e", "u", "t", "r", "a", "l">>)]
  >>

Groups == {"SUV", "Pickup"}

dataPoints(g) == IF g = "SUV" THEN suvPoints ELSE puPoints

\* ------------------------------------------------------------------------
\* Array helpers
\* ------------------------------------------------------------------------
includes(arr, x) == \E i \in 1..Len(arr) : arr[i] = x

Range(arr) == {arr[i] : i \in 1..Len(arr)}

\* Array.from(set).sort() of strings
RECURSIVE sortStrings(_)
sortStrings(S) ==
  IF S = {} THEN <<>>
  ELSE LET m == CHOOSE x \in S : \A y \in S : x = y \/ StrLess(x, y)
       IN  <<m>> \o sortStrings(S \ {m})

\* Array.from(set).sort((a, b) => a - b) of finite numbers
RECURSIVE sortNumbers(_)
sortNumbers(S) ==
  IF S = {} THEN <<>>
  ELSE LET m == CHOOSE x \in S : \A y \in S : Le(x, y)
       IN  <<m>> \o sortNumbers(S \ {m})

\* the running sum s += v over the list, from 0
RECURSIVE sumOf(_)
sumOf(vals) ==
  IF vals = <<>> THEN I(0)
  ELSE Add(sumOf(SubSeq(vals, 1, Len(vals) - 1)), vals[Len(vals)])

\* ------------------------------------------------------------------------
\* Record Normalizer (rows) and allModels
\* ------------------------------------------------------------------------
modelValOf(r) ==
  Coalesce(Get(r, "model"),
  Coalesce(Get(r, "BLD_DESC_RV_MODEL"),
  Coalesce(Get(r, "Model"),
  Coalesce(Get(r, "model_name"),
  Coalesce(Get(r, "MODEL"), Null)))))

keepsRowNoClusterCheck(r) ==
  /\ Truthy(modelValOf(r))
  /\ isFinite(Number(Get(r, "emb_x")))
  /\ isFinite(Number(Get(r, "emb_y")))

\* the test under which the normalizer keeps a raw row
keepsRow(r) ==
  /\ Truthy(modelValOf(r))
  /\ isFinite(Number(Get(r, "emb_x")))
  /\ isFinite(Number(Get(r, "emb_y")))
  /\ isFinite(Number(Get(r, "cluster")))

\* the object pushed for raw row i (src is the position of the raw row,
\* raw stands for the spread ...r)
normalizedRow(points, i) ==
  LET r == points[i]
  IN  [src |-> i, raw |-> r,
       model |-> String(modelValOf(r)),
       raw_x |-> Number(Get(r, "emb_x")),
       raw_y |-> Number(Get(r, "emb_y")),
       emb_x |-> Number(Get(r, "emb_x")),
       emb_y |-> Number(Get(r, "emb_y")),
       cluster |-> Number(Get(r, "cluster"))]

RECURSIVE normalizeFrom(_, _)
normalizeFrom(points, i) ==
  IF i > Len(points) THEN <<>>
  ELSE (IF keepsRow(points[i]) THEN <<normalizedRow(points, i)>> ELSE <<>>)
       \o normalizeFrom(points, i + 1)


\* Array.from(new Set(rows.map((r) => r.model))).sort()
modelsOf(rs) == sortStrings({rs[i].model : i \in 1..Len(rs)})


\* ------------------------------------------------------------------------
\* demoLookups and state resolution
\* ------------------------------------------------------------------------
\* the set(key, label) calls one mapping row makes: the START value, its
\* string form and, when finite, its numeric form
codeSets(start, label) ==
  <<<<start, label>>, <<Str(String(start)), label>>>>
  \o (IF isFinite(Number(start)) THEN <<<<NumQ(Number(start)), label>>>> ELSE <<>>)

\* the Map of one field as its list of set(key, label) calls, in order
RECURSIVE codeMapFrom(_, _)
codeMapFrom(field, i) ==
  IF i > Len(demosMapping) THEN <<>>
  ELSE
    LET row == demosMapping[i]
        label == trim(String(Coalesce(Get(row, "LABEL"), Str(<<>>))))
    IN  (IF row.NAME # "" /\ row.NAME = field
         THEN codeSets(Get(row, "START"), label) ELSE <<>>)
        \o codeMapFrom(field, i + 1)

demoLookups(field) == codeMapFrom(field, 1)

mapHas(m, k) == \E i \in 1..Len(m) : m[i][1] = k

\* Map.get: the value of the last set(k, ...), undefined when there is none
mapGet(m, k) ==
  IF mapHas(m, k)
  THEN Str(m[CHOOSE i \in 1..Len(m) :
                m[i][1] = k /\ \A j \in (i + 1)..Len(m) : m[j][1] # k][2])
  ELSE Undef

\* a || b
OrElse(a, b) == IF Truthy(a) THEN a ELSE b

\* what one STATE_KEYS field of the row resolves to (None: try the next key)
\* the ADMARK_STATE decoding of getRowStateName: the mapped label when
\* one of the three lookups finds a non-empty one, else the raw value
decodedState(codeMap, raw) ==
  LET mapped == OrElse(mapGet(codeMap, raw),
                OrElse(mapGet(codeMap, Str(String(raw))),
                       mapGet(codeMap, NumQ(Number(raw)))))
  IN  IF Truthy(mapped) THEN trim(String(mapped)) ELSE trim(String(raw))

stateFromKey(row, k) ==
  LET raw == Get(row.raw, k)
      val == IF k = "ADMARK_STATE"
             THEN decodedState(demoLookups("ADMARK_STATE"), raw)
             ELSE trim(String(raw))
      name == IF toStateName(val) # None THEN toStateName(val)
              ELSE abbrToName(toUpperCase(val))
  IN  IF isNullish(raw) \/ trim(String(raw)) = <<>> THEN None
      ELSE IF name # None THEN name
      ELSE embeddedState(val)

RECURSIVE stateFromKeys(_, _)
stateFromKeys(row, i) ==
  IF i > Len(STATE_KEYS) THEN None
  ELSE IF stateFromKey(row, STATE_KEYS[i]) # None THEN stateFromKey(row, STATE_KEYS[i])
  ELSE stateFromKeys(row, i + 1)

getRowStateName(row) == stateFromKeys(row, 1)

\* ------------------------------------------------------------------------
\* The component's state
\* ------------------------------------------------------------------------
VARIABLES
  group,              \* useState("SUV")
  selectedModels,     \* useState(allModels): array of model names
  colorMode,          \* useState("cluster")
  zoomCluster,        \* useState(null): None or Some(cluster)
  centerT,            \* useState(0)
  selectedStateName,  \* useState(null): None or Some(state name)
  demoModel,          \* useState(null): None or Some(model name)
  animX, animY,       \* useState(targetX), useState(targetY)
  rafRef,             \* useRef(null): None or Some(request id)
  startRef,           \* useRef(0)
  fromXRef, fromYRef, \* useRef(targetX), useRef(targetY)
  frames,             \* the browser's pending animation-frame callbacks:
                      \* [id, toX, toY], toX/toY being the targetX/targetY
                      \* captured by the closure `step`
  now,                \* performance.now()
  rowObjs,            \* the objects of the `rows` array: the emb_x / emb_y
                      \* fields they hold now, by raw position (baseByModel,
                      \* plotFrame and scopeRows hold the same objects)
  pending,            \* a render is committed whose passive effects have not run
  deps,               \* the dependency values of the last effect run
  last,               \* history: what the last step did
  pure                \* a call of a pure helper: its arguments and result

vars ==
  <<group, selectedModels, colorMode, zoomCluster, centerT, selectedStateName,
    demoModel, animX, animY, rafRef, startRef, fromXRef, fromYRef, frames, now,
    rowObjs, pending, deps, last, pure>>

NoCall == [fn |-> "none"]

\* const duration = 400
duration == 400

\* frame-to-frame delays the model explores
FrameDelays == {200}

\* values of the "Center focus" range input the model explores
SliderValues == {I(0), Rat(1, 2), I(1)}

\* ------------------------------------------------------------------------
\* useMemo values (pure functions of the hook state)
\* ------------------------------------------------------------------------
rowsByGroup == [g \in Groups |-> normalizeFrom(dataPoints(g), 1)]
\* the objects the normalizer created for dataset g, as created
freshRowObjs(rs) ==
  [s \in {rs[i].src : i \in 1..Len(rs)} |->
     LET r == rs[CHOOSE i \in 1..Len(rs) : rs[i].src = s]
     IN  [emb_x |-> r.emb_x, emb_y |-> r.emb_y]]

rowObjsByGroup == [g \in Groups |-> freshRowObjs(rowsByGroup[g])]

\* the records rs as their objects objs hold them now
withObjs(rs, objs) ==
  [i \in 1..Len(rs) |->
     [rs[i] EXCEPT !.emb_x = objs[rs[i].src].emb_x,
                   !.emb_y = objs[rs[i].src].emb_y]]

\* the `rows` memo, keyed on [group]: the array of the objects
rows == withObjs(rowsByGroup[group], rowObjs)

allModelsByGroup == [g \in Groups |-> modelsOf(rowsByGroup[g])]
allModels == allModelsByGroup[group]

stateNameByGroup ==
  [g \in Groups |-> [i \in 1..Len(dataPoints(g)) |->
     IF keepsRow(dataPoints(g)[i])
     THEN getRowStateName(normalizedRow(dataPoints(g), i)) ELSE None]]
\* getRowStateName(r) of a normalized row of the current dataset
rowStateName(r) == stateNameByGroup[group][r.src]

filterByModel(rs, active) ==
  LET keep(r) == includes(active, r.model) IN SelectSeq(rs, keep)

filterByCluster(rs, zoom) ==
  LET keep(r) == r.cluster = zoom[1]
  IN  IF zoom = None THEN rs ELSE SelectSeq(rs, keep)

filterByState(rs, sel) ==
  LET keep(r) == rowStateName(r) = sel
  IN  IF sel = None THEN rs ELSE SelectSeq(rs, keep)

filterByDemoModel(rs, dm) ==
  LET keep(r) == r.model = dm[1]
  IN  IF dm = None THEN rs ELSE SelectSeq(rs, keep)

baseByModel ==
  LET active == IF Len(selectedModels) > 0 THEN selectedModels ELSE allModels
  IN  filterByModel(rows, active)

\* the scatter narrowed to the selected state as well
plotFrameInState ==
  filterByState(filterByCluster(baseByModel, zoomCluster), selectedStateName)

plotFrame == filterByCluster(baseByModel, zoomCluster)

scopeRowsSkippingZoom == filterByState(baseByModel, selectedStateName)

scopeRows == filterByState(filterByCluster(baseByModel, zoomCluster), selectedStateName)

availableClusters == sortNumbers({baseByModel[i].cluster : i \in 1..Len(baseByModel)})

\* colorMode === "cluster" ? r.cluster : String(r.model)
groupKeyOf(r, mode) == IF mode = "cluster" THEN NumQ(r.cluster) ELSE Str(r.model)

rowsOfKey(rs, k, mode) ==
  LET keep(r) == groupKeyOf(r, mode) = k IN SelectSeq(rs, keep)

\* the Map of centroids: key -> {cx, cy}, from running sums
centroidsOf(frame, mode) ==
  [k \in {groupKeyOf(frame[i], mode) : i \in 1..Len(frame)} |->
     LET members == rowsOfKey(frame, k, mode)
         sumX == sumOf([i \in 1..Len(members) |-> members[i].emb_x])
         sumY == sumOf([i \in 1..Len(members) |-> members[i].emb_y])
         n == I(Len(members))
     IN  [cx |-> Div(sumX, n), cy |-> Div(sumY, n)]]

centroidsByGroup == centroidsOf(plotFrame, colorMode)

collapseRow(r, c, t) ==
  [r EXCEPT !.emb_x = lerp(r.raw_x, c.cx, t), !.emb_y = lerp(r.raw_y, c.cy, t)]

collapse(frame, centroids, t, mode) ==
  IF Le(t, I(0)) THEN frame
  ELSE [i \in 1..Len(frame) |->
          LET key == groupKeyOf(frame[i], mode)
          IN  IF key \in DOMAIN centroids
              THEN collapseRow(frame[i], centroids[key], t)
              ELSE frame[i]]

plotDataCentered == collapse(plotFrame, centroidsByGroup, centerT, colorMode)

collapseStoresInPlace(objs) ==
  [s \in DOMAIN objs |->
     IF \E i \in 1..Len(plotFrame) : plotFrame[i].src = s
     THEN LET i == CHOOSE i \in 1..Len(plotFrame) : plotFrame[i].src = s
          IN  [emb_x |-> plotDataCentered[i].emb_x,
               emb_y |-> plotDataCentered[i].emb_y]
     ELSE objs[s]]

\* what computing plotDataCentered stores into the objects of the plot
\* frame: nothing, out[i] is a new object {...r, emb_x, emb_y} (or r itself)
collapseStores(objs) == objs

groupKeysOf(data, mode) ==
  IF mode = "cluster"
  THEN LET g == {data[i].cluster : i \in 1..Len(data)}
           arr == sortNumbers({k \in g : isFinite(k)})
       IN  [i \in 1..Len(arr) |-> NumQ(arr[i])]
  ELSE LET arr == sortStrings({data[i].model : i \in 1..Len(data)})
       IN  [i \in 1..Len(arr) |-> Str(arr[i])]

\* the key list by model whatever the grouping mode
groupKeysByModel == groupKeysOf(plotDataCentered, "model")

groupKeys == groupKeysOf(plotDataCentered, colorMode)

series ==
  LET keys == groupKeys
      data == plotDataCentered
  IN  [i \in 1..Len(keys) |->
         [key |-> keys[i], data |-> rowsOfKey(data, keys[i], colorMode)]]

modelsInScope == sortStrings({plotFrame[i].model : i \in 1..Len(plotFrame)})

domainOf(frame) ==
  [x |-> paddedDomain([i \in 1..Len(frame) |-> frame[i].emb_x]),
   y |-> paddedDomain([i \in 1..Len(frame) |-> frame[i].emb_y])]

targetSourceMut == plotDataCentered

\* the rows whose emb_x / emb_y feed paddedDomain: plotFrame
targetSource == plotFrame

targetX == domainOf(targetSource).x
targetY == domainOf(targetSource).y

\* ------------------------------------------------------------------------
\* Colored outputs: scatter series, price-histogram series, attitude points
\* ------------------------------------------------------------------------
\* <Scatter fill={colorForKey(key, groupKeys)}> for each entry of series
scatterFills ==
  LET keys == groupKeys
      drawn == series
  IN  [i \in 1..Len(drawn) |->
         [key |-> drawn[i].key, color |-> colorForKey(drawn[i].key, keys)]]

\* Array.from(byGroup.keys()): the group keys in order of first occurrence
RECURSIVE keysInOrder(_, _)
keysInOrder(rs, mode) ==
  IF rs = <<>> THEN <<>>
  ELSE LET rest == keysInOrder(SubSeq(rs, 1, Len(rs) - 1), mode)
           k == groupKeyOf(rs[Len(rs)], mode)
       IN  IF includes(rest, k) THEN rest ELSE Append(rest, k)

\* r?.[field] of each record (for a field the normalizer leaves alone)
fieldValues(rs, field) == [i \in 1..Len(rs) |-> Get(rs[i].raw, field)]

\* a percentage of all the rows of the dataset instead of the total
pctOfAllRows(count, total) == Mul(Div(I(count), I(Len(rows))), I(100))

\* (count / total) * 100
pctOf(count, total) == Mul(Div(I(count), I(total)), I(100))

\* the fixed-bucket histogram of FIN_PRICE_UNEDITED
BUCKET_MIN == 30000
BUCKET_STEP == 5000
OVER_MIN == 110000

\* the ends of the open ranges
NegInfinity == <<-1, 0>>
Infinity == <<1, 0>>

\* Math.floor of a finite number
floor(a) == a[1] \div a[2]

\* `$${Math.round(n / 1000)}k` of a non-negative integer
fmtK(n) == <<"$">> \o Digits((n + 500) \div 1000) \o <<"k">>

\* `$${(n / 1000).toFixed(1)}k` of a non-negative integer
fmtKDec(n) ==
  LET tenths == (n + 50) \div 100
  IN  <<"$">> \o Digits(tenths \div 10) \o <<".">> \o Digits(tenths % 10) \o <<"k">>

bucketLabel(low, high) ==
  IF low = NegInfinity THEN <<"U", "n", "d", "e", "r", " ", "$", "3", "0", "k">>
  ELSE IF high = Infinity THEN <<"$", "1", "1", "0", "k", "+">>
  ELSE fmtK(low[1]) \o <<" ", "t", "o", " ">> \o fmtKDec(high[1] - 100)

\* the lows of the 5k steps: BUCKET_MIN, BUCKET_MIN + BUCKET_STEP, ... < OVER_MIN
RECURSIVE stepLows(_)
stepLows(low) ==
  IF low < OVER_MIN THEN <<low>> \o stepLows(low + BUCKET_STEP) ELSE <<>>

getFixedBucketRanges ==
  LET lows == stepLows(BUCKET_MIN)
  IN  <<[low |-> NegInfinity, high |-> I(BUCKET_MIN),
         label |-> bucketLabel(NegInfinity, I(BUCKET_MIN))]>>
      \o [i \in 1..Len(lows) |->
            [low |-> I(lows[i]), high |-> I(lows[i] + BUCKET_STEP),
             label |-> bucketLabel(I(lows[i]), I(lows[i] + BUCKET_STEP))]]
      \o <<[low |-> I(OVER_MIN), high |-> Infinity,
            label |-> bucketLabel(I(OVER_MIN), Infinity)]>>

\* the position (from 1) in a list of n buckets of the bucket a valid
\* price is counted in
bucketIndex(v, n) ==
  IF Lt(v, I(BUCKET_MIN)) THEN 1
  ELSE IF Le(I(OVER_MIN), v) THEN n
  ELSE LET stepIdx == floor(Div(Sub(v, I(BUCKET_MIN)), I(BUCKET_STEP)))
           top == floor(Sub(Div(I(OVER_MIN - BUCKET_MIN), I(BUCKET_STEP)), I(1)))
           capped == IF stepIdx < top THEN stepIdx ELSE top
       IN  2 + (IF capped > 0 THEN capped ELSE 0)

\* buildBucketsForRows over the rows' raw FIN_PRICE_UNEDITED values
bucketsOfPrices(prices) ==
  LET ranges == getFixedBucketRanges
      coerced == [i \in 1..Len(prices) |-> coercePrice(prices[i])]
      vals == SelectSeq(coerced, isFinite)
      totalValid == Len(vals)
      count(j) == Cardinality({i \in 1..Len(vals) : bucketIndex(vals[i], Len(ranges)) = j})
  IN  IF totalValid = 0 THEN [data |-> <<>>, totalValid |-> 0]
      ELSE [data |-> [j \in 1..Len(ranges) |->
                       [label |-> ranges[j].label,
                        pct |-> pctOf(count(j), totalValid),
                        count |-> count(j)]],
            totalValid |-> totalValid]

buildBucketsForRows(arr) == bucketsOfPrices(fieldValues(arr, "FIN_PRICE_UNEDITED"))

\* buildBucketsForRows(arr).data.length > 0
hasPriceData(arr) == Len(buildBucketsForRows(arr).data) > 0

\* the series buildPriceSeriesByGroup emits (groupOrder: None stands for
\* an omitted argument)
buildPriceSeriesByGroup(rs, mode, groupOrder) ==
  LET keys == IF groupOrder = None THEN keysInOrder(rs, mode) ELSE groupOrder[1]
      emits(k) == hasPriceData(rowsOfKey(rs, k, mode))
      kept == SelectSeq(keys, emits)
  IN  [i \in 1..Len(kept) |->
         [key |-> kept[i], data |-> buildBucketsForRows(rowsOfKey(rs, kept[i], mode)).data]]

priceRows == filterByDemoModel(scopeRows, demoModel)

priceOrderKeysMut == keysInOrder(priceRows, colorMode)

\* const orderKeys = groupKeys
priceOrderKeys == groupKeys

priceSeries == buildPriceSeriesByGroup(priceRows, colorMode, Some(priceOrderKeys))

priceFills ==
  LET orderKeys == priceOrderKeys
      drawn == priceSeries
  IN  [i \in 1..Len(drawn) |->
         [key |-> drawn[i].key, color |-> colorForKey(drawn[i].key, orderKeys)]]

\* ------------------------------------------------------------------------
\* demoSummary: the section of one field over the summarized records
\* ------------------------------------------------------------------------
\* const srcAll = demoModel ? scopeRows.filter(...) : scopeRows
srcAll == filterByDemoModel(scopeRows, demoModel)

\* rawVal === undefined || rawVal === null || String(rawVal).trim() === ""
isBlankValue(v) == isNullish(v) \/ trim(String(v)) = <<>>

\* the label the categorical loop counts a present raw value under
summaryLabel(codeMap, rawVal) ==
  LET label == trim(String(rawVal))
      asNum == StringToNumber(label)
  IN  IF mapHas(codeMap, rawVal) THEN mapGet(codeMap, rawVal).s
      ELSE IF mapHas(codeMap, Str(String(rawVal)))
           THEN mapGet(codeMap, Str(String(rawVal))).s
      ELSE IF mapHas(codeMap, NumQ(Number(rawVal)))
           THEN mapGet(codeMap, NumQ(Number(rawVal))).s
      ELSE IF isFinite(asNum) /\ mapHas(codeMap, NumQ(asNum))
           THEN mapGet(codeMap, NumQ(asNum)).s
      ELSE IF mapHas(codeMap, Str(NumToString(asNum)))
           THEN mapGet(codeMap, Str(NumToString(asNum))).s
      ELSE label

\* the keys of a Map, in insertion order
RECURSIVE distinctInOrder(_)
distinctInOrder(xs) ==
  IF xs = <<>> THEN <<>>
  ELSE LET rest == distinctInOrder(SubSeq(xs, 1, Len(xs) - 1))
       IN  IF includes(rest, xs[Len(xs)]) THEN rest ELSE Append(rest, xs[Len(xs)])

countOf(xs, x) == Cardinality({i \in 1..Len(xs) : xs[i] = x})

keepInsertionOrder(items) == items

\* items.sort((a, b) => b.count - a.count): a stable sort, largest count first
RECURSIVE sortByCountDesc(_)
sortByCountDesc(items) ==
  IF items = <<>> THEN <<>>
  ELSE LET i == CHOOSE i \in 1..Len(items) :
                  /\ \A j \in 1..Len(items) : items[j].count <= items[i].count
                  /\ \A j \in 1..(i - 1) : items[j].count < items[i].count
       IN  <<items[i]>>
           \o sortByCountDesc(SubSeq(items, 1, i - 1) \o SubSeq(items, i + 1, Len(items)))

sUnknown == <<"U", "n", "k", "n", "o", "w", "n">>

\* sumPct = items.reduce(...); if it is off by more than 0.1 the last
\* item's pct absorbs the difference
adjustLast(items) ==
  LET sumPct == sumOf([i \in 1..Len(items) |-> items[i].pct])
  IN  IF Lt(Lit(1, 10), AbsQ(Sub(sumPct, I(100)))) /\ Len(items) > 0
      THEN [items EXCEPT ![Len(items)].pct = Add(@, Sub(I(100), sumPct))]
      ELSE items

itemOf(label, count, total) ==
  [label |-> label, count |-> count, pct |-> pctOf(count, total)]

\* the items of the categorical section of raw values vals
categoricalItems(codeMap, vals) ==
  LET isPresent(v) == ~isBlankValue(v)
      present == SelectSeq(vals, isPresent)
      labels == [i \in 1..Len(present) |-> summaryLabel(codeMap, present[i])]
      keys == distinctInOrder(labels)
      missingCount == Len(vals) - Len(present)
      counted == [i \in 1..Len(keys) |->
                    itemOf(keys[i], countOf(labels, keys[i]), Len(vals))]
  IN  adjustLast(sortByCountDesc(counted)
                 \o (IF missingCount > 0
                     THEN <<itemOf(sUnknown, missingCount, Len(vals))>> ELSE <<>>))

categoricalSectionOfPresent(field, codeMap, vals) ==
  LET isPresent(v) == ~isBlankValue(v)
      present == SelectSeq(vals, isPresent)
  IN  IF Len(present) = 0 THEN None
      ELSE Some([field |-> field, mode |-> "categorical",
                 items |-> categoricalItems(codeMap, present),
                 total |-> Len(present)])

\* the categorical section pushed for a field (None: validCount +
\* missingCount === 0, the field is skipped)
categoricalSection(field, codeMap, vals) ==
  IF Len(vals) = 0 THEN None
  ELSE Some([field |-> field, mode |-> "categorical",
             items |-> categoricalItems(codeMap, vals), total |-> Len(vals)])

\* replace(/,/g, "")
RECURSIVE stripComma(_)
stripComma(s) ==
  IF s = <<>> THEN <<>>
  ELSE IF Head(s) = "," THEN stripComma(Tail(s))
  ELSE <<Head(s)>> \o stripComma(Tail(s))

coerceNumber(v) ==
  IF isNullish(v) THEN NaN ELSE StringToNumber(stripComma(trim(String(v))))

\* the numeric (Average) section of a Financing field (None: nValid = 0,
\* the field falls through to the categorical section)
numericSection(field, vals) ==
  LET nums == [i \in 1..Len(vals) |-> coerceNumber(vals[i])]
      valid == SelectSeq(nums, isFinite)
  IN  IF Len(valid) = 0 THEN None
      ELSE Some([field |-> field, mode |-> "numeric",
                 value |-> Div(sumOf(valid), I(Len(valid))),
                 nValid |-> Len(valid), nMissing |-> Len(vals) - Len(valid)])

\* a part of the table, in source order
FIELD_GROUPS ==
  [Demographics |-> <<"DEMO_GENDER1", "ADMARK_STATE">>,
   Financing |-> <<"FIN_PRICE_UNEDITED", "C1_PL">>,
   Loyalty |-> <<"OL_MODEL_GRP", "STATE_REFER">>,
   WillingnessToPay |-> <<"PV_TAX_INS", "STATE_WAIT">>]

\* Financing fields that should always be categorical
categoricalFinFields == {"C1_PL", "FIN_CREDIT"}

\* the section demoSummary builds for one field of the selected field
\* group (the closing sort of the sections only reorders them)
demoSection(fieldGroup, field, codeMap, vals) ==
  IF /\ fieldGroup = "Financing"
     /\ field \notin categoricalFinFields
     /\ numericSection(field, vals) # None
  THEN numericSection(field, vals)
  ELSE categoricalSection(field, codeMap, vals)

\* the section of a field over the current srcAll
sectionOf(fieldGroup, field) ==
  demoSection(fieldGroup, field, demoLookups(field), fieldValues(srcAll, field))

\* ------------------------------------------------------------------------
\* Attitude scoring: label resolution and the agree policies
\* ------------------------------------------------------------------------
aliasSuffixes == <<"_LABEL", "_TXT", "_TEXT", "_DESC", "_LAB">>

\* the field as-is, else the first alias field holding a value, else null
getAttRaw(row, varName) ==
  LET names == <<varName>> \o [i \in 1..Len(aliasSuffixes) |-> varName \o aliasSuffixes[i]]
      filled == {i \in 1..Len(names) : ~isBlankValue(Get(row, names[i]))}
  IN  IF filled = {} THEN Null
      ELSE Get(row, names[CHOOSE i \in filled : \A j \in filled : i <= j])

\* resolveMappedLabel(row, varName, demoLookups), codeMap being
\* demoLookups.get(varName) || new Map(): a JS string, or null
resolveMappedLabel(row, varName, codeMap) ==
  LET raw == getAttRaw(row, varName)
      asStr == String(raw)
      asNum == StringToNumber(asStr)
  IN  IF isNullish(raw) THEN Null
      ELSE IF mapHas(codeMap, raw) THEN mapGet(codeMap, raw)
      ELSE IF mapHas(codeMap, Str(asStr)) THEN mapGet(codeMap, Str(asStr))
      ELSE IF isFinite(asNum) /\ mapHas(codeMap, NumQ(asNum))
           THEN mapGet(codeMap, NumQ(asNum))
      ELSE IF isFinite(asNum) /\ mapHas(codeMap, Str(NumToString(asNum)))
           THEN mapGet(codeMap, Str(NumToString(asNum)))
      ELSE Str(asStr)

\* .replace(/\s+/g, " "): every run of whitespace becomes one space
RECURSIVE collapseSpaces(_)
collapseSpaces(s) ==
  IF s = <<>> THEN <<>>
  ELSE IF Head(s) = " " /\ Len(s) > 1 /\ s[2] = " " THEN collapseSpaces(Tail(s))
  ELSE <<Head(s)>> \o collapseSpaces(Tail(s))

\* normalizeLabel of a JS string
normalizeLabel(s) == collapseSpaces(toLowerCase(trim(s)))

AGREE_TOP3 ==
  {<<"s", "t", "r", "o", "n", "g", "l", "y", " ", "a", "g", "r", "e", "e">>,
   <<"a", "g", "r", "e", "e">>,
   <<"s", "o", "m", "e", "w", "h", "a", "t", " ", "a", "g", "r", "e", "e">>}
AGREE_TOP2 ==
  {<<"s", "t", "r", "o", "n", "g", "l", "y", " ", "a", "g", "r", "e", "e">>,
   <<"s", "o", "m", "e", "w", "h", "a", "t", " ", "a", "g", "r", "e", "e">>}

sLoyal == <<"l", "o", "y", "a", "l">>

\* the characters of the names of the attitude variables
varChars ==
  [OL_MODEL_GRP |-> <<"O", "L", "_", "M", "O", "D", "E", "L", "_", "G", "R", "P">>,
   STATE_REFER |-> <<"S", "T", "A", "T", "E", "_", "R", "E", "F", "E", "R">>,
   STATE_WAIT |-> <<"S", "T", "A", "T", "E", "_", "W", "A", "I", "T">>,
   PV_TAX_INS |-> <<"P", "V", "_", "T", "A", "X", "_", "I", "N", "S">>,
   PV_STATE_TAX |-> <<"P", "V", "_", "S", "T", "A", "T", "E", "_", "T", "A", "X">>]

\* /^STATE_/i.test(varName)
isStateVar(varName) ==
  LET name == varChars[varName]
  IN  Len(name) >= 6 /\ toUpperCase(SubSeq(name, 1, 6)) = <<"S", "T", "A", "T", "E", "_">>

agreePolicyFor(varName) ==
  IF varName = "OL_MODEL_GRP" THEN "LOYAL_ONLY"
  ELSE IF isStateVar(varName) THEN "TOP2"
  ELSE "TOP3"

isTopNAgree(label, policy) ==
  LET s == normalizeLabel(label)
  IN  IF policy = "LOYAL_ONLY" THEN s = sLoyal
      ELSE IF policy = "TOP2" THEN s \in AGREE_TOP2
      ELSE s \in AGREE_TOP3

\* the tallies of percentAgreeMappedPolicy over the rows' raw records
agreeTally(raws, varName, codeMap) ==
  LET policy == agreePolicyFor(varName)
      labs == [i \in 1..Len(raws) |-> resolveMappedLabel(raws[i], varName, codeMap)]
      present == {i \in 1..Len(raws) : Truthy(labs[i])}
  IN  [agree |-> Cardinality({i \in present : isTopNAgree(labs[i].s, policy)}),
       valid |-> Cardinality(present),
       missing |-> Len(raws) - Cardinality(present)]

\* percentAgreeMappedPolicy(rows, varName, demoLookups, {includeMissingInDenom})
percentAgreeMappedPolicy(raws, varName, codeMap, includeMissingInDenom) ==
  LET t == agreeTally(raws, varName, codeMap)
      denom == IF includeMissingInDenom THEN t.valid + t.missing ELSE t.valid
  IN  IF denom > 0 THEN Mul(Div(I(t.agree), I(denom)), I(100)) ELSE NaN

\* percentAgreeMappedPolicy(rows, v, demoLookups, {includeMissingInDenom: true})
\* is finite exactly when its denominator valid + missing = rows.length is > 0
agreeIsFinite(rs) == Len(rs) > 0

\* useState(LOYALTY_VARS[0]), useState(WTP_VARS[0])
attXVar == FIELD_GROUPS.Loyalty[1]
attYVar == FIELD_GROUPS.WillingnessToPay[1]

attitudesSrcRows == filterByDemoModel(scopeRows, demoModel)

\* const order = groupKeys
attitudesOrder == groupKeys

\* a point for every key of the order, finite or not
attitudesPointsOfEveryKey(xVar, yVar) ==
  LET srcRows == attitudesSrcRows
      order == attitudesOrder
      raws(k) == LET arr == rowsOfKey(srcRows, k, colorMode)
                 IN  [i \in 1..Len(arr) |-> arr[i].raw]
  IN  [i \in 1..Len(order) |->
         [key |-> order[i],
          x |-> percentAgreeMappedPolicy(raws(order[i]), xVar, demoLookups(xVar), TRUE),
          y |-> percentAgreeMappedPolicy(raws(order[i]), yVar, demoLookups(yVar), TRUE),
          n |-> Len(raws(order[i])),
          color |-> colorForKey(order[i], order)]]

\* the points of the attitudes chart for the variables xVar and yVar
attitudesPointsOf(xVar, yVar) ==
  LET srcRows == attitudesSrcRows
      order == attitudesOrder
      raws(k) == LET arr == rowsOfKey(srcRows, k, colorMode)
                 IN  [i \in 1..Len(arr) |-> arr[i].raw]
      x(k) == percentAgreeMappedPolicy(raws(k), xVar, demoLookups(xVar), TRUE)
      y(k) == percentAgreeMappedPolicy(raws(k), yVar, demoLookups(yVar), TRUE)
      emits(k) == isFinite(x(k)) /\ isFinite(y(k))
      keys == SelectSeq(order, emits)
  IN  [i \in 1..Len(keys) |->
         [key |-> keys[i], x |-> x(keys[i]), y |-> y(keys[i]),
          n |-> Len(raws(keys[i])),
          color |-> colorForKey(keys[i], order)]]

attitudesPoints == attitudesPointsOf(attXVar, attYVar)

\* ------------------------------------------------------------------------
\* The state aggregate of the map
\* ------------------------------------------------------------------------
demoBaseRows == filterByCluster(baseByModel, zoomCluster)

mapBaseRows == filterByDemoModel(demoBaseRows, demoModel)

\* the state names of the rows that resolve, in row order
resolvedStateNames(rs) ==
  LET names == [i \in 1..Len(rs) |-> rowStateName(rs[i])]
      found == SelectSeq(names, LAMBDA n : n # None)
  IN  [i \in 1..Len(found) |-> found[i][1]]

\* Math.max over the percentages, from 0
RECURSIVE maxPctOf(_)
maxPctOf(pcts) ==
  IF pcts = <<>> THEN I(0)
  ELSE LET rest == maxPctOf(SubSeq(pcts, 1, Len(pcts) - 1))
       IN  IF Lt(rest, pcts[Len(pcts)]) THEN pcts[Len(pcts)] ELSE rest

\* { counts, pcts, total, maxPct } for the resolved names and a total;
\* names holds the keys of the two Maps in insertion order
stateAggOf(resolved, total) ==
  LET names == distinctInOrder(resolved)
      counts == [i \in 1..Len(names) |-> countOf(resolved, names[i])]
      pcts == IF total > 0
              THEN [i \in 1..Len(names) |-> pctOf(counts[i], total)] ELSE <<>>
  IN  [names |-> IF total > 0 THEN names ELSE <<>>,
       counts |-> counts, pcts |-> pcts, total |-> total, maxPct |-> maxPctOf(pcts)]

\* the aggregate with every row of the map context in the denominator
stateAggOverAllRows == stateAggOf(resolvedStateNames(mapBaseRows), Len(mapBaseRows))

stateAgg ==
  stateAggOf(resolvedStateNames(mapBaseRows), Len(resolvedStateNames(mapBaseRows)))

\* stateAgg.pcts.get(name) || 0
pctOfState(agg, name) ==
  LET hit == {i \in 1..Len(agg.pcts) : agg.names[i] = name[1]}
  IN  IF hit = {} THEN I(0) ELSE agg.pcts[CHOOSE i \in hit : TRUE]

\* the color intensity t of a state of the map
mapIntensity(agg, name) ==
  LET pct == pctOfState(agg, name)
      q == Div(pct, agg.maxPct)
  IN  IF Lt(I(0), agg.maxPct) THEN (IF Lt(q, I(1)) THEN q ELSE I(1)) ELSE I(0)

\* ------------------------------------------------------------------------
\* Actions
\* ------------------------------------------------------------------------
Target == [x |-> targetX, y |-> targetY]

\* history of the last step: slider (the last handler was the slider's
\* onChange), zoomReset (the step reset a stale zoom), animStart (the step
\* ran the animation effect), cut (the animation that effect interrupted);
\* picked: the selected state had records in the plot frame when the map
\* click selected it; before: the plot frame when the last handler, a change
\* of the selected state, ran; switched: the
\* last handler was a dataset button's onClick
NoStep ==
  [slider |-> FALSE, zoomReset |-> FALSE, animStart |-> FALSE, cut |-> None,
   picked |-> FALSE, before |-> None, switched |-> FALSE]

Handled(ev) == /\ last' = [NoStep EXCEPT !.slider = (ev = "setCenterT"),
                                        !.switched = (ev = "setGroup"),
                                        !.picked = last.picked]
               /\ UNCHANGED pure

\* the render of the current state has run when the next step is taken
Rendered == rowObjs' = collapseStores(rowObjs)

\* the refs and the frame queue, which only the animation effect and the
\* frame callback write
animVars == <<animX, animY, rafRef, startRef, fromXRef, fromYRef, frames, now>>

\* the first render: effects have not run yet; target is the initial
\* targetX / targetY, which seed animX, animY and the from-refs
FirstRender(target) ==
  /\ group = "SUV"
  /\ selectedModels = allModelsByGroup["SUV"]
  /\ colorMode = "cluster"
  /\ zoomCluster = None
  /\ centerT = I(0)
  /\ selectedStateName = None
  /\ demoModel = None
  /\ animX = target.x
  /\ animY = target.y
  /\ rafRef = None
  /\ startRef = 0
  /\ fromXRef = target.x
  /\ fromYRef = target.y
  /\ frames = {}
  /\ now = 0
  /\ rowObjs = rowObjsByGroup["SUV"]
  /\ pending = TRUE
  /\ deps = [mounted |-> FALSE, group |-> "SUV", target |-> [x |-> None, y |-> None]]
  /\ last = NoStep

InitApp == FirstRender(domainOf(rowsByGroup["SUV"]))

Init == InitApp /\ pure = NoCall

\* onClick={() => setGroup("SUV")} / setGroup("Pickup")
SetGroup(g) ==
  /\ ~pending
  /\ g # group
  /\ group' = g
  /\ pending' = TRUE
  /\ Handled("setGroup")
  /\ rowObjs' = rowObjsByGroup[g]
  /\ UNCHANGED <<selectedModels, colorMode, zoomCluster, centerT, selectedStateName,
                 demoModel, animVars, deps>>

toggled(prev, m) ==
  LET other(x) == x # m
  IN  IF includes(prev, m) THEN SelectSeq(prev, other) ELSE Append(prev, m)

ToggleModel(m) ==
  /\ ~pending
  /\ selectedModels' = toggled(selectedModels, m)
  /\ pending' = TRUE
  /\ Handled("toggleModel")
  /\ Rendered
  /\ UNCHANGED <<group, colorMode, zoomCluster, centerT, selectedStateName,
                 demoModel, animVars, deps>>

SelectAll ==
  /\ ~pending
  /\ selectedModels # allModels
  /\ selectedModels' = allModels
  /\ pending' = TRUE
  /\ Handled("selectAll")
  /\ Rendered
  /\ UNCHANGED <<group, colorMode, zoomCluster, centerT, selectedStateName,
                 demoModel, animVars, deps>>

ClearAll ==
  /\ ~pending
  /\ selectedModels # <<>>
  /\ selectedModels' = <<>>
  /\ pending' = TRUE
  /\ Handled("clearAll")
  /\ Rendered
  /\ UNCHANGED <<group, colorMode, zoomCluster, centerT, selectedStateName,
                 demoModel, animVars, deps>>

SetColorMode(mode) ==
  /\ ~pending
  /\ mode # colorMode
  /\ colorMode' = mode
  /\ pending' = TRUE
  /\ Handled("setColorMode")
  /\ Rendered
  /\ UNCHANGED <<group, selectedModels, zoomCluster, centerT, selectedStateName,
                 demoModel, animVars, deps>>

\* the "All" button, the C<k> buttons of availableClusters, a click on a
\* point of the scatter or on a centroid hotspot
SetZoomCluster(z) ==
  /\ ~pending
  /\ z # zoomCluster
  /\ zoomCluster' = z
  /\ pending' = TRUE
  /\ Handled("setZoomCluster")
  /\ Rendered
  /\ UNCHANGED <<group, selectedModels, colorMode, centerT, selectedStateName,
                 demoModel, animVars, deps>>

SetCenterT(t) ==
  /\ ~pending
  /\ t # centerT
  /\ centerT' = t
  /\ pending' = TRUE
  /\ Handled("setCenterT")
  /\ Rendered
  /\ UNCHANGED <<group, selectedModels, colorMode, zoomCluster, selectedStateName,
                 demoModel, animVars, deps>>

\* a click on a state of the map, or the "Clear" button
\* some record of the frame resolves to the state sel
stateInFrame(frame, sel) ==
  sel # None /\ \E i \in 1..Len(frame) : rowStateName(frame[i]) = sel

stateClick(sel, frame) ==
  /\ ~pending
  /\ sel # selectedStateName
  /\ selectedStateName' = sel
  /\ pending' = TRUE
  /\ last' = [NoStep EXCEPT !.picked = stateInFrame(frame, sel),
                            !.before = Some(frame)]
  /\ UNCHANGED pure
  /\ Rendered
  /\ UNCHANGED <<group, selectedModels, colorMode, zoomCluster, centerT,
                 demoModel, animVars, deps>>

SetSelectedStateName(sel) == stateClick(sel, plotFrame)

SetDemoModel(dm) ==
  /\ ~pending
  /\ dm # demoModel
  /\ demoModel' = dm
  /\ pending' = TRUE
  /\ Handled("setDemoModel")
  /\ Rendered
  /\ UNCHANGED <<group, selectedModels, colorMode, zoomCluster, centerT,
                 selectedStateName, animVars, deps>>

\* if (zoomCluster != null && !availableClusters.includes(zoomCluster))
staleZoom(zoom, available) == zoom # None /\ ~includes(available, zoom[1])

zoomRepaired(zoom, available) ==
  IF staleZoom(zoom, available) /\ available # <<>> THEN Some(available[1]) ELSE zoom

\* the zoom-reset effect: setZoomCluster(null) on a stale zoom
zoomAfterCheck(zoom, available) == IF staleZoom(zoom, available) THEN None ELSE zoom

\* if (demoModel && !modelsInScope.includes(demoModel)) setDemoModel(null)
demoModelAfterCheck(dm, inScope) ==
  IF dm # None /\ dm[1] # <<>> /\ ~includes(inScope, dm[1]) THEN None ELSE dm

cancelNothing(fs, ref) == fs

\* if (rafRef.current) cancelAnimationFrame(rafRef.current)
cancelAnimationFrame(fs, ref) ==
  IF ref = None THEN fs ELSE {f \in fs : f.id # ref[1]}

\* requestAnimationFrame returns an id no pending callback has
requestId(fs) ==
  CHOOSE id \in 1..(Cardinality(fs) + 1) :
    /\ \A f \in fs : f.id # id
    /\ \A j \in 1..(id - 1) : \E f \in fs : f.id = j

animStartFromOrigin(anim, from, target) == from

\* fromXRef.current = animX || targetX (an array is always truthy)
animStartFrom(anim, from, target) == anim

\* The flush of the passive effects of the committed render, in source
\* order: setSelectedModels(allModels) on [allModels]; the reset
\* on [group]; the zoom check; the demoModel check; the animation effect on
\* the four target bounds. The state updates are batched into one re-render.
Effects(available, inScope, target) ==
  LET modelsChanged == ~deps.mounted \/ deps.group # group
      groupChanged == ~deps.mounted \/ deps.group # group
      zoomStale == staleZoom(zoomCluster, available)
      targetChanged == ~deps.mounted \/ deps.target # target
      \* the previous effect's cleanup, then the effect body's own cancel
      cleaned == cancelAnimationFrame(
                   IF deps.mounted THEN cancelAnimationFrame(frames, rafRef) ELSE frames,
                   rafRef)
      id == requestId(cleaned)
      inFlight == {f \in frames : rafRef = Some(f.id)}
  IN
  /\ pending
  /\ selectedModels' = IF modelsChanged THEN allModels ELSE selectedModels
  /\ zoomCluster' = IF groupChanged THEN None
                    ELSE zoomAfterCheck(zoomCluster, available)
  /\ centerT' = IF groupChanged THEN I(0) ELSE centerT
  /\ demoModel' = demoModelAfterCheck(demoModel, inScope)
  /\ IF targetChanged
     THEN /\ startRef' = now
          /\ fromXRef' = animStartFrom(animX, fromXRef, target.x)
          /\ fromYRef' = animStartFrom(animY, fromYRef, target.y)
          /\ frames' = cleaned \cup {[id |-> id, toX |-> target.x, toY |-> target.y]}
          /\ rafRef' = Some(id)
     ELSE UNCHANGED <<startRef, fromXRef, fromYRef, frames, rafRef>>
  /\ deps' = [mounted |-> TRUE, group |-> group, target |-> target]
  /\ pending' = \/ selectedModels' # selectedModels
                \/ zoomCluster' # zoomCluster
                \/ centerT' # centerT
                \/ demoModel' # demoModel
  /\ last' = [slider |-> last.slider,
              picked |-> last.picked,
              before |-> last.before,
              switched |-> last.switched,
              zoomReset |-> zoomStale,
              animStart |-> targetChanged,
              cut |-> IF targetChanged /\ inFlight # {}
                      THEN LET f == CHOOSE f \in inFlight : TRUE
                           IN  Some([fromX |-> fromXRef, fromY |-> fromYRef,
                                     toX |-> f.toX, toY |-> f.toY])
                      ELSE None]
  /\ Rendered
  /\ UNCHANGED <<group, colorMode, selectedStateName, animX, animY, now, pure>>

RunEffects == Effects(availableClusters, modelsInScope, Target)

\* Math.min(1, (now - startRef.current) / duration)
progress(t, start) ==
  LET p == Div(I(t - start), I(duration)) IN IF Lt(p, I(1)) THEN p ELSE I(1)

\* The browser runs one pending frame callback `step`, dt after the
\* previous step of the model.
Frame(cb, dt) ==
  LET t == progress(now + dt, startRef)
      rest == frames \ {cb}
      id == requestId(rest)
  IN
  /\ ~pending
  /\ now + dt <= MaxTime
  /\ now' = now + dt
  /\ animX' = tweenDomain(fromXRef, cb.toX, t)
  /\ animY' = tweenDomain(fromYRef, cb.toY, t)
  /\ IF Lt(t, I(1))
     THEN /\ frames' = rest \cup {[id |-> id, toX |-> cb.toX, toY |-> cb.toY]}
          /\ rafRef' = Some(id)
     ELSE /\ frames' = rest
          /\ rafRef' = None
  /\ Handled("frame")
  /\ Rendered
  /\ UNCHANGED <<group, selectedModels, colorMode, zoomCluster, centerT,
                 selectedStateName, demoModel, startRef, fromXRef, fromYRef,
                 pending, deps>>


Next ==
  \/ \E g \in Groups : SetGroup(g)
  \/ \E m \in Range(allModels) : ToggleModel(m)
  \/ SelectAll
  \/ ClearAll
  \/ \E mode \in {"cluster", "model"} : SetColorMode(mode)
  \/ \E z \in {None} \cup {Some(k) : k \in Range(availableClusters)} : SetZoomCluster(z)
  \/ \E t \in SliderValues : SetCenterT(t)
  \/ \E sel \in {None} \cup {Some(n) : n \in Range(US_STATE_NAME_SET)} : SetSelectedStateName(sel)
  \/ \E dm \in {None} \cup {Some(m) : m \in Range(modelsInScope)} : SetDemoModel(dm)
  \/ RunEffects
  \/ \E cb \in frames, dt \in FrameDelays : Frame(cb, dt)

\* The whole component.
Spec == Init /\ [][Next]_vars

\* The handlers and effects alone, with no animation frame delivered: the
\* hook state other than the animation's never reads the animation's, so this
\* reaches every combination of it that Spec reaches.
NextView ==
  \/ \E g \in Groups : SetGroup(g)
  \/ \E m \in Range(allModels) : ToggleModel(m)
  \/ SelectAll
  \/ ClearAll
  \/ \E mode \in {"cluster", "model"} : SetColorMode(mode)
  \/ \E z \in {None} \cup {Some(k) : k \in Range(availableClusters)} : SetZoomCluster(z)
  \/ \E t \in SliderValues : SetCenterT(t)
  \/ \E sel \in {None} \cup {Some(n) : n \in Range(US_STATE_NAME_SET)} : SetSelectedStateName(sel)
  \/ \E dm \in {None} \cup {Some(m) : m \in Range(modelsInScope)} : SetDemoModel(dm)
  \/ RunEffects

SpecView == Init /\ [][NextView]_vars

\* The Domain Animator: dataset switches, zooms and slider moves (the target
\* Domain changes with the first two), the effects and the frame callbacks.
NextAnim ==
  \/ \E g \in Groups : SetGroup(g)
  \/ \E z \in {None} \cup {Some(k) : k \in Range(availableClusters)} : SetZoomCluster(z)
  \/ \E t \in SliderValues : SetCenterT(t)
  \/ RunEffects
  \/ \E cb \in frames, dt \in FrameDelays : Frame(cb, dt)

SpecAnim == Init /\ [][NextAnim]_vars

\* The Domain Animator with the browser's scheduling.  A handler runs only
\* while a whole animation still fits before MaxTime, the latest time the
\* model explores.
DeliverFrame == \E cb \in frames, dt \in FrameDelays : Frame(cb, dt)

inTime == now + duration <= MaxTime

NextLive ==
  \/ \E g \in Groups : inTime /\ SetGroup(g)
  \/ \E z \in {None} \cup {Some(k) : k \in Range(availableClusters)} :
       inTime /\ SetZoomCluster(z)
  \/ \E t \in SliderValues : inTime /\ SetCenterT(t)
  \/ RunEffects
  \/ DeliverFrame

\* Fairness is stated on what a step does to the variables that identify
\* it, so that ENABLED is decided without the arithmetic of the step.
\* The hook state the passive effects may set: every RunEffects step either
\* sets some of it or clears pending, and no other step is taken while
\* pending.
flushVars == <<pending, selectedModels, zoomCluster, centerT, demoModel>>

EffectsFlush ==
  /\ pending
  /\ pending' \in BOOLEAN
  /\ selectedModels' \in {selectedModels, allModelsByGroup[group]}
  /\ zoomCluster' \in {zoomCluster, None}
  /\ centerT' \in {centerT, I(0)}
  /\ demoModel' \in {demoModel, None}

\* The clock: only a DeliverFrame step advances now, and one is enabled
\* whenever a callback is pending outside a render.
FrameTick ==
  /\ ~pending
  /\ frames # {}
  /\ \E dt \in FrameDelays : now + dt <= MaxTime /\ now' = now + dt

\* React flushes the passive effects of every committed render (weak
\* fairness of the RunEffects steps), and the browser delivers a requested
\* frame callback however often handlers and effects run in between
\* (strong fairness of the DeliverFrame steps).
SpecLive ==
  /\ Init /\ [][NextLive]_vars
  /\ WF_flushVars(EffectsFlush)
  /\ SF_now(FrameTick)

\* ------------------------------------------------------------------------
\* colorForKey on its own: the arguments are drawn from key lists of up to
\* MaxKeys keys (numbers, strings, and strings that print like a number of
\* the list) and one call is made
\* ------------------------------------------------------------------------
KeyAt(i) ==
  IF i % 4 = 0 THEN Str(Digits(i - 1))
  ELSE IF i % 4 = 2 THEN Str(<<"m">> \o Digits(i))
  ELSE Num(i)

KeyLists ==
  {[k \in 1..(hi - lo) |-> KeyAt(lo + k)] : lo \in 0..MaxKeys, hi \in 0..MaxKeys}

KeyChoices == {KeyAt(i) : i \in 1..(MaxKeys + 1)} \cup {Str(Digits(i)) : i \in 1..3}

InitColor ==
  /\ InitApp
  /\ \E key \in KeyChoices, keys \in KeyLists :
       pure = [fn |-> "colorForKey", key |-> key, keys |-> keys,
               done |-> FALSE, out |-> ""]

CallColorForKey ==
  /\ pure.fn = "colorForKey"
  /\ ~pure.done
  /\ pure' = [pure EXCEPT !.done = TRUE, !.out = colorForKey(pure.key, pure.keys)]
  /\ UNCHANGED <<group, selectedModels, colorMode, zoomCluster, centerT,
                 selectedStateName, demoModel, animVars, rowObjs, pending, deps, last>>

SpecColor == InitColor /\ [][CallColorForKey]_vars

\* ------------------------------------------------------------------------
\* demoSummary's loop body on its own: one field, the raw values of the
\* summarized records drawn from small sets, and one call
\* ------------------------------------------------------------------------
\* all lists of at most n members of S
ListsUpTo(S, n) == UNION {[1..k -> S] : k \in 0..n}

sA == <<"A">>
sB == <<"B">>

\* raw values of a categorical field: labels, a label with surrounding
\* blanks, a code, null and a blank string
CategoricalValues ==
  {Str(sA), Str(sB), Str(<<" ", "A", " ">>), Num(1), Null, Str(<<" ">>)}

\* raw values of a numeric Financing field
NumericValues ==
  {Num(10), Num(20), Str(<<"1", ",", "0", "0", "0">>), Str(<<"n", "a">>),
   Null, Str(<<>>)}

\* code maps of the field: none, and one that decodes 1
CodeMaps == {<<>>, <<<<Num(1), sB>>, <<Str(<<"1">>), sB>>>>}

InitSummary ==
  /\ InitApp
  /\ \/ \E vals \in ListsUpTo(CategoricalValues, MaxVals), codeMap \in CodeMaps :
          pure = [fn |-> "demoSection", fieldGroup |-> "Demographics",
                  field |-> "DEMO_GENDER1", codeMap |-> codeMap, vals |-> vals,
                  done |-> FALSE, out |-> None]
     \/ \E vals \in ListsUpTo(NumericValues, MaxVals) :
          pure = [fn |-> "demoSection", fieldGroup |-> "Financing",
                  field |-> "FIN_PU_DOWN_PAY", codeMap |-> <<>>, vals |-> vals,
                  done |-> FALSE, out |-> None]

CallDemoSection ==
  /\ pure.fn = "demoSection"
  /\ ~pure.done
  /\ pure' = [pure EXCEPT
                !.done = TRUE,
                !.out = demoSection(pure.fieldGroup, pure.field, pure.codeMap,
                                    pure.vals)]
  /\ UNCHANGED <<group, selectedModels, colorMode, zoomCluster, centerT,
                 selectedStateName, demoModel, animVars, rowObjs, pending, deps, last>>

SpecSummary == InitSummary /\ [][CallDemoSection]_vars

\* raw values of a coded field: codes as numbers and strings, padded
\* strings, values the table does not hold, null and a blank string
RawCodes ==
  {Num(1), Str(<<"1">>), Str(<<" ", "1", " ">>), Str(<<"1", ".", "0">>), Num(2),
   Str(sA), Str(<<" ", "A", " ">>), Str(sB), Str(<<" ">>), Null}

\* mapping rows (START, trimmed LABEL) of the field, one with a blank label
MappingRows == {<<Num(1), sB>>, <<Str(<<"1">>), <<>>>>, <<Str(sA), sB>>, <<Num(1), <<>>>>}

RECURSIVE codeMapOfRows(_)
codeMapOfRows(mrows) ==
  IF mrows = <<>> THEN <<>>
  ELSE codeSets(mrows[1][1], mrows[1][2]) \o codeMapOfRows(Tail(mrows))

InitResolve ==
  /\ InitApp
  /\ \E raw \in RawCodes, mrows \in ListsUpTo(MappingRows, MaxRows) :
       pure = [fn |-> "resolve", raw |-> raw, codeMap |-> codeMapOfRows(mrows),
               done |-> FALSE, out |-> None]

\* the label the categorical summary, the agreement scorer and the geo
\* resolver each give the raw value under the code map (None: no label)
CallResolve ==
  /\ pure.fn = "resolve"
  /\ ~pure.done
  /\ LET raw == pure.raw
         codeMap == pure.codeMap
         lab == resolveMappedLabel([ADMARK_STATE |-> raw], "ADMARK_STATE", codeMap)
     IN  pure' = [pure EXCEPT
                   !.done = TRUE,
                   !.out = [summary |-> IF isBlankValue(raw) THEN None
                                        ELSE Some(summaryLabel(codeMap, raw)),
                            scorer |-> IF isNullish(lab) THEN None ELSE Some(lab.s),
                            geo |-> IF isBlankValue(raw) THEN None
                                    ELSE Some(decodedState(codeMap, raw))]]
  /\ UNCHANGED <<group, selectedModels, colorMode, zoomCluster, centerT,
                 selectedStateName, demoModel, animVars, rowObjs, pending, deps, last>>

SpecResolve == InitResolve /\ [][CallResolve]_vars

\* raw FIN_PRICE_UNEDITED values: prices below, on and above the bucket
\* edges, a formatted price, a non-numeric string, null and a blank string
PriceValues ==
  {Num(29000), Num(30000), Num(31000), Num(35000), Num(108000), Num(110000),
   Num(112000), Str(<<"$", "3", "1", ",", "0", "0", "0">>), Str(<<"n", "a">>),
   Null, Str(<<>>)}

InitBuckets ==
  /\ InitApp
  /\ \E prices \in ListsUpTo(PriceValues, MaxPrices) :
       pure = [fn |-> "buildBuckets", prices |-> prices, done |-> FALSE,
               out |-> None]

CallBuildBuckets ==
  /\ pure.fn = "buildBuckets"
  /\ ~pure.done
  /\ pure' = [pure EXCEPT !.done = TRUE, !.out = Some(bucketsOfPrices(pure.prices))]
  /\ UNCHANGED <<group, selectedModels, colorMode, zoomCluster, centerT,
                 selectedStateName, demoModel, animVars, rowObjs, pending, deps, last>>

SpecBuckets == InitBuckets /\ [][CallBuildBuckets]_vars

\* resolved labels: the agree scale in several spellings, the loyalty
\* groups, and labels outside both
AgreeLabels ==
  {<<"S", "t", "r", "o", "n", "g", "l", "y", " ", "A", "g", "r", "e", "e">>,
   <<" ", "s", "t", "r", "o", "n", "g", "l", "y", " ", " ", "a", "g", "r", "e", "e", " ">>,
   <<"A", "g", "r", "e", "e">>,
   <<"a", "g", "r", "e", "e">>,
   <<"S", "o", "m", "e", "w", "h", "a", "t", " ", "A", "g", "r", "e", "e">>,
   <<"s", "o", "m", "e", "w", "h", "a", "t", " ", "a", "g", "r", "e", "e">>,
   <<"N", "e", "u", "t", "r", "a", "l">>,
   <<"L", "o", "y", "a", "l">>,
   <<" ", "l", "o", "y", "a", "l", " ">>,
   <<"D", "i", "s", "a", "g", "r", "e", "e">>,
   <<>>,
   <<"L", "O", "Y", "A", "L">>}

InitAgree ==
  /\ InitApp
  /\ \E varName \in DOMAIN varChars, label \in AgreeLabels :
       pure = [fn |-> "isTopNAgree", varName |-> varName, label |-> label,
               done |-> FALSE, out |-> None]

\* isTopNAgree(lab, agreePolicyFor(varName))
CallIsTopNAgree ==
  /\ pure.fn = "isTopNAgree"
  /\ ~pure.done
  /\ pure' = [pure EXCEPT
                !.done = TRUE,
                !.out = Some([policy |-> agreePolicyFor(pure.varName),
                              agree |-> isTopNAgree(pure.label,
                                                    agreePolicyFor(pure.varName))])]
  /\ UNCHANGED <<group, selectedModels, colorMode, zoomCluster, centerT,
                 selectedStateName, demoModel, animVars, rowObjs, pending, deps, last>>

SpecAgree == InitAgree /\ [][CallIsTopNAgree]_vars

\* state labels: every string of up to MaxLabel of the characters C, A,
\* c, a, space and comma, and names, abbreviations and longer strings
StateLabels ==
  ListsUpTo({"C", "A", "c", "a", " ", ","}, MaxLabel)
  \cup
  {<<"C", "a", "l", "i", "f", "o", "r", "n", "i", "a">>,
   <<"c", "a", "l", "i", "f", "o", "r", "n", "i", "a">>,
   <<"C", "A", "L", "I", "F", "O", "R", "N", "I", "A">>,
   <<" ", "N", "e", "w", " ", "Y", "o", "r", "k", " ">>,
   <<"n", "e", "w", " ", "y", "o", "r", "k">>,
   <<"T", "e", "x", "a", "s">>,
   <<"T", "X", ",", " ", "C", "A">>,
   <<"L", "A", ",", " ", "C", "A">>,
   <<"M", "e", "x", "i", "c", "o">>,
   <<"C", "a", "l", "i", "f">>,
   <<"x", "C", "A">>,
   <<"X", " ", "C", "A", " ", "Y">>,
   <<"A", "u", "s", "t", "i", "n", " ", "T", "X">>,
   <<"a", "u", "s", "t", "i", "n", " ", "t", "x">>,
   <<"N", "Y", "1">>,
   <<"N", "Y", "_">>,
   <<"4", "4">>,
   <<"N", "e", "w", " ", " ", "Y", "o", "r", "k">>,
   <<"T", "e", "x", "a", "s", " ", "T", "X", " ", "N", "Y">>}

InitState ==
  /\ InitApp
  /\ \E label \in StateLabels :
       pure = [fn |-> "toStateName", label |-> label, done |-> FALSE, out |-> None]

\* toStateName(label), and getRowStateName of a row holding label in its
\* state field
CallToStateName ==
  /\ pure.fn = "toStateName"
  /\ ~pure.done
  /\ pure' = [pure EXCEPT
                !.done = TRUE,
                !.out = Some([name |-> toStateName(pure.label),
                              row |-> getRowStateName(
                                        [raw |-> [state |-> Str(pure.label)]])])]
  /\ UNCHANGED <<group, selectedModels, colorMode, zoomCluster, centerT,
                 selectedStateName, demoModel, animVars, rowObjs, pending, deps, last>>

SpecState == InitState /\ [][CallToStateName]_vars

\* ------------------------------------------------------------------------
\* paddedDomain as a pure function of a list of finite coordinates
\* ------------------------------------------------------------------------
\* coordinates: zero, small and large magnitudes of both signs, fractions,
\* and two large values one unit in the last place apart
CoordValues ==
  {I(0), I(5), I(-3), Rat(1, 8), Rat(-1, 2), I(1000), Rat(8001, 8), I(-1000)}

InitDomain ==
  /\ InitApp
  /\ \E vals \in ListsUpTo(CoordValues, MaxCoords) :
       pure = [fn |-> "paddedDomain", vals |-> vals, done |-> FALSE, out |-> None]

CallPaddedDomain ==
  /\ pure.fn = "paddedDomain"
  /\ ~pure.done
  /\ pure' = [pure EXCEPT !.done = TRUE, !.out = Some(paddedDomain(pure.vals))]
  /\ UNCHANGED <<group, selectedModels, colorMode, zoomCluster, centerT,
                 selectedStateName, demoModel, animVars, rowObjs, pending, deps, last>>

SpecDomain == InitDomain /\ [][CallPaddedDomain]_vars

\* ------------------------------------------------------------------------
\* Properties
\* ------------------------------------------------------------------------
\* the record sets derived from the normalized rows
DerivedSets ==
  <<rows, baseByModel, plotFrame, scopeRows, plotDataCentered, priceRows>>

\* a raw row the spec calls invalid: no alternate model field holds a
\* non-empty value, or emb_x, emb_y or cluster does not coerce to a finite
\* number
RawInvalid(p) ==
  \/ \A f \in {"model", "BLD_DESC_RV_MODEL", "Model", "model_name", "MODEL"} :
       ~Truthy(Get(p, f))
  \/ \E f \in {"emb_x", "emb_y", "cluster"} : ~isFinite(Number(Get(p, f)))

\* C1: every record of every derived record set (normalized rows,
\* model-filtered set, plot frame, summary scope, displayed points) has a
\* non-empty model string and finite emb_x, emb_y and cluster, and is the
\* image of a raw row of the current dataset that is not invalid.
C1_DerivedRecordsValid ==
  \A d \in 1..Len(DerivedSets) : \A i \in 1..Len(DerivedSets[d]) :
    LET r == DerivedSets[d][i]
    IN  /\ Len(r.model) > 0
        /\ isFinite(r.emb_x) /\ isFinite(r.emb_y) /\ isFinite(r.cluster)
        /\ r.src \in 1..Len(dataPoints(group))
        /\ r.raw = dataPoints(group)[r.src]
        /\ ~RawInvalid(dataPoints(group)[r.src])

\* C1 witness: on the Pickup dataset, which holds an invalid raw row, after
\* a zoom and a state selection the settled summary scope is not empty.
C1_Witness ==
  /\ ~pending
  /\ group = "Pickup"
  /\ zoomCluster # None
  /\ selectedStateName # None
  /\ Len(scopeRows) > 0
  /\ \E i \in 1..Len(dataPoints(group)) : RawInvalid(dataPoints(group)[i])

\* the positions, ascending, of the raw rows of the current dataset that
\* pass the given test
RECURSIVE ascending(_)
ascending(S) ==
  IF S = {} THEN <<>>
  ELSE LET m == CHOOSE x \in S : \A y \in S : x <= y
       IN  <<m>> \o ascending(S \ {m})

srcOf(rs) == [i \in 1..Len(rs) |-> rs[i].src]

\* per dataset and raw position: whether the normalizer keeps the row, and
\* the model, cluster and resolved state of its normalized record
RawFacts ==
  [g \in Groups |-> [i \in 1..Len(dataPoints(g)) |->
     LET p == normalizedRow(dataPoints(g), i)
     IN  [kept |-> keepsRow(dataPoints(g)[i]),
          model |-> p.model,
          cluster |-> p.cluster,
          state |-> IF keepsRow(dataPoints(g)[i]) THEN getRowStateName(p) ELSE None]]]

InSelection(i) ==
  /\ RawFacts[group][i].kept
  /\ IF selectedModels = <<>> THEN TRUE
     ELSE \E j \in 1..Len(selectedModels) : selectedModels[j] = RawFacts[group][i].model

InZoom(i) == zoomCluster = None \/ RawFacts[group][i].cluster = zoomCluster[1]

InState(i) == selectedStateName = None \/ RawFacts[group][i].state = selectedStateName

RawPositions == 1..Len(dataPoints(group))

\* C2: the summary scope is the normalized rows, in their original order,
\* whose model is in the active selection (all models when the selection
\* is empty), then whose cluster is the zoomed one when a zoom is set, then
\* whose resolved state is the selected one when a state is selected; the
\* plot frame is the same without the state filter, the model-filtered set
\* the same without the zoom; so scope, plot frame, model-filtered set and
\* normalized rows are nested.
C2_ScopeIsFilterCascade ==
  /\ srcOf(baseByModel) = ascending({i \in RawPositions : InSelection(i)})
  /\ srcOf(plotFrame) = ascending({i \in RawPositions : InSelection(i) /\ InZoom(i)})
  /\ srcOf(scopeRows) =
       ascending({i \in RawPositions : InSelection(i) /\ InZoom(i) /\ InState(i)})
  /\ Range(scopeRows) \subseteq Range(plotFrame)
  /\ Range(plotFrame) \subseteq Range(baseByModel)
  /\ Range(baseByModel) \subseteq Range(rows)

\* C2 witness: all three filters are set and each one removes records.
C2_Witness ==
  /\ ~pending
  /\ selectedModels # <<>>
  /\ zoomCluster # None
  /\ selectedStateName # None
  /\ 0 < Len(scopeRows)
  /\ Len(scopeRows) < Len(plotFrame)
  /\ Len(plotFrame) < Len(baseByModel)
  /\ Len(baseByModel) < Len(rows)

\* C3: the effect flush resets a stale zoom to null (never to another
\* cluster, never leaving it), and whenever the effects have settled
\* zoomCluster is null or a cluster of the model-filtered set.
C3_StaleZoomReset ==
  [][/\ (pending /\ staleZoom(zoomCluster, availableClusters)) => zoomCluster' = None
     /\ ~pending' => (zoomCluster' = None
                      \/ \E i \in 1..Len(baseByModel') :
                           baseByModel'[i].cluster = zoomCluster'[1])]_vars

\* C3 witness: the last step found the zoom stale on an unchanged dataset
\* and reset it.
C3_Witness ==
  /\ last.zoomReset
  /\ zoomCluster = None
  /\ selectedModels # allModels
  /\ selectedModels # <<>>

\* the mean of a list of numbers as the code accumulates it: the running
\* sum from 0 in list order, divided by the count
meanOf(vals) == Div(sumOf(vals), I(Len(vals)))

\* the centroid of the group of record r over the plot frame, from the
\* normalized coordinates of the group's records
groupCentroid(r) ==
  LET members == rowsOfKey(plotFrame, groupKeyOf(r, colorMode), colorMode)
  IN  [x |-> meanOf([i \in 1..Len(members) |-> members[i].raw_x]),
       y |-> meanOf([i \in 1..Len(members) |-> members[i].raw_y])]

\* C4, the interpolation: the displayed coordinate of every record of the
\* plot frame is raw + (centroid - raw) * centerT.
C4_Interpolated ==
  /\ Len(plotDataCentered) = Len(plotFrame)
  /\ \A i \in 1..Len(plotFrame) :
       LET r == plotFrame[i]
           c == groupCentroid(r)
       IN  /\ plotDataCentered[i].emb_x = Add(r.raw_x, Mul(Sub(c.x, r.raw_x), centerT))
           /\ plotDataCentered[i].emb_y = Add(r.raw_y, Mul(Sub(c.y, r.raw_y), centerT))

\* C4, at 0: the displayed point list equals the plot frame.
C4_AtZero == centerT = I(0) => plotDataCentered = plotFrame

\* C4, at 1: every record is displayed exactly at the centroid of its
\* group, so all records of one group coincide.
C4_AtOne ==
  centerT = I(1) =>
    /\ \A i \in 1..Len(plotFrame) :
         /\ plotDataCentered[i].emb_x = groupCentroid(plotFrame[i]).x
         /\ plotDataCentered[i].emb_y = groupCentroid(plotFrame[i]).y
    /\ \A i, j \in 1..Len(plotDataCentered) :
         groupKeyOf(plotDataCentered[i], colorMode) = groupKeyOf(plotDataCentered[j], colorMode)
           => /\ plotDataCentered[i].emb_x = plotDataCentered[j].emb_x
              /\ plotDataCentered[i].emb_y = plotDataCentered[j].emb_y

\* C4: for every record of the plot frame, with centroids taken per group
\* over the plot frame, the displayed coordinate is
\* raw + (centroid - raw) * centerT; at centerT = 0 the displayed list equals
\* the plot frame, and at centerT = 1 every record is displayed exactly at
\* the centroid of its group, so the records of one group coincide.
C4_CollapseContract == C4_Interpolated /\ C4_AtZero /\ C4_AtOne

\* C5: every displayed record carries raw_x / raw_y equal to the normalized
\* embedding coordinates of its raw row, whatever centerT is; the records of
\* the plot frame keep emb_x / emb_y equal to those coordinates (computing
\* the displayed list writes nothing into them); so with the slider back at
\* 0 the displayed coordinates are the original ones.
C5_RawCoordinatesKept ==
  /\ Len(plotDataCentered) = Len(plotFrame)
  /\ \A i \in 1..Len(plotFrame) :
       LET p == plotFrame[i]
           d == plotDataCentered[i]
           raw == dataPoints(group)[p.src]
       IN  /\ d.src = p.src
           /\ d.raw_x = Number(Get(raw, "emb_x")) /\ d.raw_y = Number(Get(raw, "emb_y"))
           /\ p.raw_x = d.raw_x /\ p.raw_y = d.raw_y
           /\ p.emb_x = p.raw_x /\ p.emb_y = p.raw_y
           /\ centerT = I(0) => d.emb_x = d.raw_x /\ d.emb_y = d.raw_y

\* C5 witness: the slider is back at 0 after the last render displayed
\* the points away from their raw coordinates.
C5_Witness ==
  /\ ~pending
  /\ last.slider
  /\ centerT = I(0)
  /\ Len(plotFrame) >= 2
  /\ \E i \in 1..Len(plotFrame) :
       ~(plotFrame[i].raw_x = groupCentroid(plotFrame[i]).x)

\* C6: after a change of centerT alone, and after the effect flush that
\* follows it, the target Domains are the ones the effects last ran with
\* (those before the change) and the animation effect has not run; the
\* step writes none of the animator's state: no callback is cancelled or
\* requested and animX, animY, startRef, fromXRef, fromYRef stay as they are.
C6_SliderKeepsDomains ==
  /\ [](last.slider => (Target = deps.target /\ ~last.animStart))
  /\ [][last'.slider =>
         UNCHANGED <<animX, animY, rafRef, startRef, fromXRef, fromYRef, frames>>]_vars

\* C6 witness: the effects of a slider move to 1 have run while a Domain
\* animation was in flight; the displayed points differ from the plot frame.
C6_Witness ==
  /\ ~pending
  /\ last.slider
  /\ centerT = I(1)
  /\ frames # {}
  /\ plotDataCentered # plotFrame

\* C7: when the animation effect runs (the target Domain changed) it
\* cancels the callback in flight, and the new animation starts, on each
\* axis, from the Domain last rendered (animX, animY), at the current time,
\* toward the new target.
C7_RestartFromRendered ==
  [][(pending /\ last'.animStart)
        => /\ fromXRef' = animX /\ fromYRef' = animY
           /\ startRef' = now
           /\ rafRef' # None
           /\ frames' = {[id |-> rafRef'[1], toX |-> targetX, toY |-> targetY]}]_vars

\* C7 witness: the last step interrupted an animation in flight, and the new
\* start differs from the interrupted animation's start and from its target.
C7_Witness ==
  /\ last.animStart
  /\ last.cut # None
  /\ fromXRef # last.cut[1].fromX
  /\ fromXRef # last.cut[1].toX
  /\ fromXRef = animX

\* C8: at most one frame callback is scheduled; it is the one rafRef names,
\* and it interpolates toward the target of the animation started last.
C8_OneCurrentCallback ==
  /\ Cardinality(frames) <= 1
  /\ \A f \in frames :
       /\ rafRef = Some(f.id)
       /\ deps.mounted
       /\ f.toX = deps.target.x /\ f.toY = deps.target.y

\* C8 witness: an animation toward another target was in flight when the
\* last step started a new one, and one callback is scheduled.
C8_Witness ==
  /\ last.animStart
  /\ last.cut # None
  /\ Cardinality(frames) = 1
  /\ \A f \in frames : f.toX # last.cut[1].toX \/ f.toY # last.cut[1].toY

\* the 0-based position of the first key of keys whose string form is that
\* of key, or 0 when there is none
firstPosition(key, keys) ==
  LET hits == {i \in 1..Len(keys) : String(keys[i]) = String(key)}
  IN  IF hits = {} THEN 0 ELSE (CHOOSE i \in hits : \A j \in hits : i <= j) - 1

\* C9: colorForKey(key, keys) is the palette entry at the position of key in
\* keys, compared by string form, modulo 15, and the entry at index 0 when
\* key does not occur in keys.
C9_ColorByPosition ==
  (pure.fn = "colorForKey" /\ pure.done) =>
    /\ Len(COLORS) = 15
    /\ pure.out = COLORS[(firstPosition(pure.key, pure.keys) % 15) + 1]

\* C9 witness: a call whose numeric key first matches at position 15 or
\* later, so that the palette wraps around.
C9_Witness ==
  /\ pure.fn = "colorForKey"
  /\ pure.done
  /\ pure.key.t = "num"
  /\ firstPosition(pure.key, pure.keys) >= 15
  /\ pure.out # COLORS[1]

\* C10: every price-histogram series and every attitude point has the color
\* of the scatter series of the same GroupKey.
C10_SameColorEverywhere ==
  LET scatter == scatterFills
      price == priceFills
      attitudes == attitudesPoints
  IN  /\ \A i \in 1..Len(price) : \E j \in 1..Len(scatter) :
           /\ scatter[j].key = price[i].key
           /\ scatter[j].color = price[i].color
      /\ \A i \in 1..Len(attitudes) : \E j \in 1..Len(scatter) :
           /\ scatter[j].key = attitudes[i].key
           /\ scatter[j].color = attitudes[i].color

\* C10 witness: with a secondary filter set, two price series and two
\* attitude points are shown and a price series is not at the position its
\* key has in groupKeys.
C10_Witness ==
  /\ ~pending
  /\ demoModel # None \/ selectedStateName # None
  /\ Len(priceFills) >= 2
  /\ Len(attitudesPoints) >= 2
  /\ \E i \in 1..Len(priceFills) : priceFills[i].key # groupKeys[i]

\* the exact (unrounded) sum of a list of numbers
RECURSIVE exactSum(_)
exactSum(vals) ==
  IF vals = <<>> THEN I(0)
  ELSE LET a == exactSum(SubSeq(vals, 1, Len(vals) - 1))
           b == vals[Len(vals)]
       IN  Rat(a[1] * b[2] + b[1] * a[2], a[2] * b[2])

\* q is 100 up to the rounding of k percentages and their running sum:
\* |q - 100| <= (k + 2) * 100 / 2^Precision, which with the 53 bits of a JS
\* number is below 0.001 for any list of fewer than 10^10 items
near100(q, k) ==
  Abs(q[1] - 100 * q[2]) * pow2[Precision] <= (k + 2) * 100 * q[2]

\* the categorical sections of the current summary, over every field group
categoricalSectionsNow ==
  {sectionOf(g, FIELD_GROUPS[g][i])[1] :
     <<g, i>> \in {<<g, i>> \in (DOMAIN FIELD_GROUPS) \X (1..2) :
                    /\ sectionOf(g, FIELD_GROUPS[g][i]) # None
                    /\ sectionOf(g, FIELD_GROUPS[g][i])[1].mode = "categorical"}}

\* C11: in every categorical section the item percentages sum to 100 (up to
\* rounding), the item counts sum to the section total, and the total is
\* the number of records summarized: the scope, narrowed to the focused
\* model when one is set.
C11_SectionSumsTo100 ==
  LET summarized == {i \in 1..Len(scopeRows) :
                       demoModel = None \/ scopeRows[i].model = demoModel[1]}
  IN  \A sec \in categoricalSectionsNow :
        /\ near100(exactSum([i \in 1..Len(sec.items) |-> sec.items[i].pct]),
                    Len(sec.items))
        /\ exactSum([i \in 1..Len(sec.items) |-> I(sec.items[i].count)])
             = I(sec.total)
        /\ sec.total = Cardinality(summarized)

\* a model is focused, and a section has three items, one of them Unknown,
\* whose percentages are not exact
C11_Witness ==
  /\ ~pending
  /\ demoModel # None
  /\ \E sec \in categoricalSectionsNow :
       /\ Len(sec.items) = 3
       /\ sec.total = 3
       /\ sec.items[3].label = sUnknown

\* a categorical section was computed for the drawn raw values
categoricalDone ==
  /\ pure.fn = "demoSection" /\ pure.done
  /\ pure.out # None /\ pure.out[1].mode = "categorical"

\* the number of drawn raw values that are null, undefined or blank
missingOf(vals) == Cardinality({i \in 1..Len(vals) : isBlankValue(vals[i])})

\* C12: in a categorical section each percentage is
\* count / (validCount + missingCount) * 100 with the missing values in the
\* denominator; the present labels come in descending count order; one
\* "Unknown" item holding the missing count is appended last whenever
\* missingCount > 0, whatever its count; [A, A, B, null] with no code
\* mapping gives A 2 (50%), B 1 (25%), Unknown 1 (25%).
C12_CategoricalItems ==
  categoricalDone =>
    LET items == pure.out[1].items
        vals == pure.vals
        missing == missingOf(vals)
        nPresent == IF missing > 0 THEN Len(items) - 1 ELSE Len(items)
        labelled(l) == {i \in 1..Len(vals) :
                          /\ ~isBlankValue(vals[i])
                          /\ summaryLabel(pure.codeMap, vals[i]) = l}
    IN  /\ \A i \in 1..Len(items) :
             items[i].pct = Mul(Div(I(items[i].count), I(Len(vals))), I(100))
        /\ \A i \in 1..nPresent :
             /\ items[i].count = Cardinality(labelled(items[i].label))
             /\ items[i].count > 0
             /\ \A j \in (i + 1)..nPresent :
                  /\ items[i].count >= items[j].count
                  /\ items[i].label # items[j].label
        /\ \A i \in 1..Len(vals) :
             isBlankValue(vals[i])
               \/ \E k \in 1..nPresent :
                    items[k].label = summaryLabel(pure.codeMap, vals[i])
        /\ missing > 0 =>
             /\ Len(items) > 0
             /\ items[Len(items)].label = sUnknown
             /\ items[Len(items)].count = missing
        /\ (vals = <<Str(sA), Str(sA), Str(sB), Null>> /\ pure.codeMap = <<>>) =>
             items = <<[label |-> sA, count |-> 2, pct |-> I(50)],
                       [label |-> sB, count |-> 1, pct |-> I(25)],
                       [label |-> sUnknown, count |-> 1, pct |-> I(25)]>>

\* the section of [null, B, null, A] was computed: Unknown, the largest
\* count, is its last item
C12_Witness ==
  /\ categoricalDone
  /\ pure.vals = <<Null, Str(sB), Null, Str(sA)>>
  /\ Len(pure.out[1].items) = 3
  /\ pure.out[1].items[3].count = 2

\* C13: code-to-label resolution yields the same label for the same raw
\* value and code table in the categorical summary, in the agreement
\* scorer and in the geo resolver's ADMARK_STATE decoding, padded raw
\* values, values absent from the table and blank mapped labels included
C13_SameLabelEverywhere ==
  (pure.fn = "resolve" /\ pure.done) =>
    /\ pure.out.summary = pure.out.scorer
    /\ pure.out.scorer = pure.out.geo

\* the values the claim counts as valid: present, not blank, and finite
\* once thousands separators are removed
numericValid(vals) ==
  SelectSeq(vals, LAMBDA v : ~isBlankValue(v) /\ isFinite(coerceNumber(v)))

\* C14: the mean reported for a numeric Financing field is the sum of the
\* values that coerce to a finite number divided by their count; absent,
\* null, blank and non-numeric values are tallied in nMissing and enter
\* neither the sum nor the divisor; nValid + nMissing is the record count
C14_MeanOverValidOnly ==
  (/\ pure.fn = "demoSection" /\ pure.done /\ pure.fieldGroup = "Financing"
   /\ pure.out # None /\ pure.out[1].mode = "numeric") =>
    LET valid == numericValid(pure.vals)
        nums == [i \in 1..Len(valid) |-> coerceNumber(valid[i])]
        kpi == pure.out[1]
    IN  /\ kpi.nValid = Len(valid)
        /\ kpi.nMissing = Len(pure.vals) - Len(valid)
        /\ kpi.nValid + kpi.nMissing = Len(pure.vals)
        /\ Len(valid) > 0
        /\ kpi.value = Div(sumOf(nums), I(Len(valid)))

\* the prices the claim counts as valid: present, not blank, and finite
\* once coerced
validPrices(prices) ==
  LET present == SelectSeq(prices, LAMBDA v : ~isBlankValue(v))
  IN  SelectSeq([i \in 1..Len(present) |-> coercePrice(present[i])], isFinite)

\* the bucket (from 1, of 18) the claim assigns a valid price
claimedBucket(v) ==
  IF Lt(v, I(30000)) THEN 1
  ELSE IF Le(I(110000), v) THEN 18
  ELSE 2 + CHOOSE i \in 0..15 :
             Le(I(30000 + 5000 * i), v) /\ Lt(v, I(30000 + 5000 * (i + 1)))

\* C15: every record whose price coerces to a finite number is counted in
\* exactly one of the 18 fixed buckets ("Under $30k" below 30000, "$110k+"
\* from 110000, else the 5000-wide bucket that contains it), records with
\* a missing or non-numeric price are counted in no bucket, and the bucket
\* counts sum to the number of valid prices
C15_OneBucketPerValidPrice ==
  (pure.fn = "buildBuckets" /\ pure.done) =>
    LET valid == validPrices(pure.prices)
        data == pure.out[1].data
    IN  IF Len(valid) = 0 THEN data = <<>>
        ELSE /\ Len(data) = 18
             /\ data[1].label = <<"U", "n", "d", "e", "r", " ", "$", "3", "0", "k">>
             /\ data[2].label
                  = <<"$", "3", "0", "k", " ", "t", "o", " ", "$", "3", "4", ".", "9", "k">>
             /\ data[18].label = <<"$", "1", "1", "0", "k", "+">>
             /\ \A j \in 1..18 :
                  data[j].count
                    = Cardinality({i \in 1..Len(valid) : claimedBucket(valid[i]) = j})
             /\ sumOf([j \in 1..18 |-> I(data[j].count)]) = I(Len(valid))
             /\ pure.out[1].totalValid = Len(valid)

\* the valid prices of the records of one group of the histogram's rows
groupPrices(k) ==
  validPrices(fieldValues(rowsOfKey(priceRows, k, colorMode), "FIN_PRICE_UNEDITED"))

folded(label) == collapseSpaces(toLowerCase(trim(label)))

\* C17: the agree policy is chosen per variable (exact match "loyal" for
\* OL_MODEL_GRP, top-2 for the variables named STATE_*, top-3 {strongly
\* agree, agree, somewhat agree} otherwise) and applied to the normalized
\* label: "Strongly Agree" counts as agree under top-3, "Neutral" does not,
\* and under top-2 "somewhat agree" does not count as agree
C17_AgreePolicy ==
  (pure.fn = "isTopNAgree" /\ pure.done) =>
    LET s == folded(pure.label)
        out == pure.out[1]
    IN  IF pure.varName = "OL_MODEL_GRP"
        THEN out.policy = "LOYAL_ONLY" /\ (out.agree <=> s = <<"l", "o", "y", "a", "l">>)
        ELSE IF pure.varName \in {"STATE_REFER", "STATE_WAIT"}
        THEN /\ out.policy = "TOP2"
             /\ s = <<"s", "t", "r", "o", "n", "g", "l", "y", " ", "a", "g", "r", "e", "e">> => out.agree
             /\ s = <<"s", "o", "m", "e", "w", "h", "a", "t", " ", "a", "g", "r", "e", "e">> => ~out.agree
             /\ s \notin {<<"s", "t", "r", "o", "n", "g", "l", "y", " ", "a", "g", "r", "e", "e">>, <<"a", "g", "r", "e", "e">>,
                          <<"s", "o", "m", "e", "w", "h", "a", "t", " ", "a", "g", "r", "e", "e">>} => ~out.agree
        ELSE /\ out.policy = "TOP3"
             /\ out.agree <=> s \in {<<"s", "t", "r", "o", "n", "g", "l", "y", " ", "a", "g", "r", "e", "e">>, <<"a", "g", "r", "e", "e">>,
                                      <<"s", "o", "m", "e", "w", "h", "a", "t", " ", "a", "g", "r", "e", "e">>}

\* a and b differ by no more than the rounding of k percentages and their
\* sum: |a - b| <= (k + 2) * 100 / 2^Precision
closeTo(a, b, k) ==
  Abs(a[1] * b[2] - b[1] * a[2]) * pow2[Precision] <= (k + 2) * 100 * a[2] * b[2]

\* the sum of the card's percentages of the labels the policy of varName
\* classifies as agree
cardAgreePct(items, varName) ==
  LET agreed == SelectSeq(items, LAMBDA it : isTopNAgree(it.label, agreePolicyFor(varName)))
  IN  sumOf([i \in 1..Len(agreed) |-> agreed[i].pct])

\* the count of the card's Unknown bucket
cardMissing(items) ==
  LET unknown == SelectSeq(items, LAMBDA it : it.label = sUnknown)
  IN  IF Len(unknown) = 0 THEN 0 ELSE unknown[1].count

\* C18: with the default denominator the percent-agree of a variable over
\* a set of records equals the sum of the summary card's percentages, for
\* the same records and field, over the labels the variable's policy
\* classifies as agree: both views classify the same records as missing
\* and divide by the same total (valid + missing)
C18_ScorerMatchesCard ==
  \A varName \in {"OL_MODEL_GRP", "PV_TAX_INS"} :
    LET records == srcAll
        codeMap == demoLookups(varName)
        raws == [i \in 1..Len(records) |-> records[i].raw]
        tally == agreeTally(raws, varName, codeMap)
        items == categoricalItems(codeMap, fieldValues(records, varName))
    IN  Len(records) > 0 =>
          /\ tally.missing = cardMissing(items)
          /\ tally.valid + tally.missing = Len(records)
          /\ closeTo(percentAgreeMappedPolicy(raws, varName, codeMap, TRUE),
                     cardAgreePct(items, varName), Len(items))

\* the points of every pair of selectable variables
attitudesChoices ==
  Range(FIELD_GROUPS.Loyalty) \X Range(FIELD_GROUPS.WillingnessToPay)

\* C19: every emitted attitude-comparison point has finite x and y in
\* [0, 100]; a GroupKey without records in the summarized scope (its
\* percent-agree is not finite) is omitted, and at most one point is
\* emitted per GroupKey
C19_PointsFiniteInRange ==
  \A c \in attitudesChoices :
    LET pts == attitudesPointsOf(c[1], c[2])
        keys == groupKeys
    IN  /\ \A i \in 1..Len(pts) :
             /\ isFinite(pts[i].x) /\ Le(I(0), pts[i].x) /\ Le(pts[i].x, I(100))
             /\ isFinite(pts[i].y) /\ Le(I(0), pts[i].y) /\ Le(pts[i].y, I(100))
             /\ includes(keys, pts[i].key)
        /\ \A i, j \in 1..Len(pts) : pts[i].key = pts[j].key => i = j
        /\ \A n \in 1..Len(keys) :
             Len(rowsOfKey(attitudesSrcRows, keys[n], colorMode)) = 0
               => \A i \in 1..Len(pts) : pts[i].key # keys[n]

\* a GroupKey of the chart without records in the summarized scope, beside
\* an emitted point strictly inside the range on one axis
C19_Witness ==
  /\ \E n \in 1..Len(groupKeys) :
       Len(rowsOfKey(attitudesSrcRows, groupKeys[n], colorMode)) = 0
  /\ \E i \in 1..Len(attitudesPoints) :
       \/ Lt(I(0), attitudesPoints[i].x) /\ Lt(attitudesPoints[i].x, I(100))
       \/ Lt(I(0), attitudesPoints[i].y) /\ Lt(attitudesPoints[i].y, I(100))

\* the state the claim resolves the trimmed label s to: by abbreviation,
\* else by full name, both without regard to case, else by the first
\* embedded two-letter token that is an abbreviation
claimedState(s) ==
  LET table == Range(US_STATE_ABBR_TO_NAME)
      byAbbr == {e \in table : e[1] = toUpperCase(s)}
      byName == {e \in table : toLowerCase(e[2]) = toLowerCase(s)}
      tokens == {i \in 1..(Len(s) - 1) :
                   /\ isUpper(s[i]) /\ isUpper(s[i + 1])
                   /\ (i = 1 \/ ~isWordChar(s[i - 1]))
                   /\ (i + 1 = Len(s) \/ ~isWordChar(s[i + 2]))
                   /\ \E e \in table : e[1] = SubSeq(s, i, i + 1)}
      first == CHOOSE i \in tokens : \A j \in tokens : i <= j
  IN  IF byAbbr # {} THEN Some((CHOOSE e \in byAbbr : TRUE)[2])
      ELSE IF byName # {} THEN Some((CHOOSE e \in byName : TRUE)[2])
      ELSE IF tokens # {}
           THEN Some((CHOOSE e \in table : e[1] = SubSeq(s, first, first + 1))[2])
      ELSE None

\* C20: state resolution tries a two-letter abbreviation match, then a
\* full-name match (both case-insensitive), then an embedded two-letter
\* token, and returns the canonical full state name: "ca" and "California"
\* both resolve to "California", a value matching none resolves to nothing
C20_StateResolution ==
  /\ claimedState(<<"c", "a">>) = Some(California)
  /\ claimedState(<<"C", "a", "l", "i", "f", "o", "r", "n", "i", "a">>) = Some(California)
  /\ (pure.fn = "toStateName" /\ pure.done) =>
       /\ pure.out[1].name = claimedState(trim(pure.label))
       /\ pure.out[1].row = claimedState(trim(pure.label))

\* "ca" has been resolved, to California
C20_Witness ==
  /\ pure.fn = "toStateName" /\ pure.done
  /\ pure.label = <<"c", "a">>
  /\ pure.out[1].name = Some(California)
  /\ pure.out[1].row = Some(California)

\* C21: the state aggregate counts only the records whose state resolves:
\* each state's percentage is count / totalResolved * 100, the percentages
\* sum to 100 when a record resolves, maxPct is the largest percentage (0
\* when none resolves), every state's intensity pct / maxPct is in [0, 1]
\* and some state has intensity 1 when a record resolves
C21_StateAggregate ==
  LET agg == stateAgg
      base == mapBaseRows
      resolved == {i \in 1..Len(base) : rowStateName(base[i]) # None}
      countOfState(n) == Cardinality({i \in resolved : rowStateName(base[i]) = n})
      states == {Some(n) : n \in Range(US_STATE_NAME_SET)}
      seen == {n \in states : countOfState(n) > 0}
  IN  /\ agg.total = Cardinality(resolved)
      /\ {Some(agg.names[i]) : i \in 1..Len(agg.names)} = seen
      /\ \A n \in states :
           /\ pctOfState(agg, n)
                = IF countOfState(n) = 0 THEN I(0)
                  ELSE Mul(Div(I(countOfState(n)), I(Cardinality(resolved))), I(100))
           /\ Le(pctOfState(agg, n), agg.maxPct)
           /\ Le(I(0), mapIntensity(agg, n)) /\ Le(mapIntensity(agg, n), I(1))
      /\ resolved = {} => agg.maxPct = I(0)
      /\ resolved # {} =>
           /\ near100(exactSum(agg.pcts), Len(agg.pcts))
           /\ \E n \in states : agg.maxPct = pctOfState(agg, n)
           /\ \E n \in states : mapIntensity(agg, n) = I(1)

\* two states with different shares beside a record that does not resolve
C21_Witness ==
  /\ Len(stateAgg.names) >= 2
  /\ \E i, j \in 1..Len(stateAgg.pcts) : Lt(stateAgg.pcts[i], stateAgg.pcts[j])
  /\ stateAgg.total < Len(mapBaseRows)

\* C22: once the effects have settled, a selected state that had records
\* when it was selected, and a model focus, still have records in the scope
\* left by the model selection, the cluster zoom and the dataset: the
\* post-recomputation check has reset a stale one to its default
C22_NoStaleSecondaryFilter ==
  ~pending =>
    /\ (selectedStateName # None /\ last.picked)
         => stateInFrame(plotFrame, selectedStateName)
    /\ (demoModel # None) => includes(modelsInScope, demoModel[1])

\* a raw row with a required field missing: no alternate model field holds
\* a value, or emb_x, emb_y or cluster is absent, null, blank or does not
\* coerce to a finite number
RawMissing(p) ==
  \/ \A f \in {"model", "BLD_DESC_RV_MODEL", "Model", "model_name", "MODEL"} :
       isBlankValue(Get(p, f))
  \/ \E f \in {"emb_x", "emb_y", "cluster"} :
       isBlankValue(Get(p, f)) \/ ~isFinite(Number(Get(p, f)))

\* C23: the Record Normalizer drops every raw row with one of its four
\* required fields missing; a missing coordinate or cluster is never
\* replaced by a default value such as 0
C23_MissingFieldDropsRow ==
  \A i \in 1..Len(dataPoints(group)) :
    RawMissing(dataPoints(group)[i]) => \A n \in 1..Len(rows) : rows[n].src # i

\* the label the claim gives a raw value: the first hit among the raw
\* value, its string form and its numeric form, else the string form as
\* it stands
claimedLabel(codeMap, raw) ==
  IF mapHas(codeMap, raw) THEN mapGet(codeMap, raw).s
  ELSE IF mapHas(codeMap, Str(String(raw))) THEN mapGet(codeMap, Str(String(raw))).s
  ELSE IF mapHas(codeMap, NumQ(Number(raw))) THEN mapGet(codeMap, NumQ(Number(raw))).s
  ELSE String(raw)

\* C24: code resolution looks a raw value up as itself, then as its string
\* form, then as its numeric form, and returns the first hit; when none
\* matches the label is the string form of the raw value, unmodified (not
\* trimmed, not re-cased, not re-parsed as a number)
C24_LookupOrderAndFallback ==
  (pure.fn = "resolve" /\ pure.done) =>
    /\ pure.out.scorer # None
         => pure.out.scorer = Some(claimedLabel(pure.codeMap, pure.raw))
    /\ pure.out.summary # None
         => pure.out.summary = Some(claimedLabel(pure.codeMap, pure.raw))

\* the GroupKeys of every valid record of the dataset, in key order
allKnownKeys == groupKeysOf(rows, colorMode)

\* keys is strictly ascending: by number in cluster mode, by code units in
\* model mode
strictlyAscending(keys) ==
  \A i \in 1..(Len(keys) - 1) :
    IF colorMode = "cluster" THEN Lt(keys[i].n, keys[i + 1].n)
    ELSE StrLess(keys[i].s, keys[i + 1].s)

\* C25: the GroupKey list is ascending (numerically in cluster mode,
\* lexicographically in model mode) without duplicates, and a GroupKey
\* keeps its color whatever the model selection, the cluster zoom and the
\* collapse value are: in every state a key in view has the color of its
\* position among all the GroupKeys of the dataset, which is the color it
\* has when everything is in view
C25_KeysSortedColorsStable ==
  /\ strictlyAscending(groupKeys)
  /\ \A i \in 1..Len(scatterFills) :
       scatterFills[i].color = colorForKey(scatterFills[i].key, allKnownKeys)

\* the values of a list that no other value of the list is below / above
lowest(vals) == {v \in Range(vals) : \A w \in Range(vals) : Le(v, w)}
highest(vals) == {v \in Range(vals) : \A w \in Range(vals) : Le(w, v)}

noFrameScheduled == rafRef = None /\ frames = {}

\* the displayed Domain is the target Domain of the animation effect
displaysTarget == animX = deps.target.x /\ animY = deps.target.y

\* C27: a scheduled frame callback leads to a state where no callback is
\* scheduled and the displayed Domain equals the target Domain on both
\* axes, unless a new target Domain restarts the animation first.
C27_AnimationTerminates ==
  (rafRef # None) ~> ((noFrameScheduled /\ displaysTarget) \/ last.animStart)

\* the state aggregate of the map over the records of frame
stateAggOver(frame) ==
  LET resolved == resolvedStateNames(filterByDemoModel(frame, demoModel))
  IN  stateAggOf(resolved, Len(resolved))

\* C28: after a change of the selected state, and after the effects that
\* follow it, the plot frame is the plot frame of before the change, the
\* group centroids, the target Domains and the per-state aggregate are
\* those of that frame (grouping mode and model focus are left alone by
\* these steps), and no Domain animation has started.
C28_StateSelectionKeepsScatter ==
  (last.before # None) =>
    LET frame == last.before[1]
    IN  /\ plotFrame = frame
        /\ centroidsByGroup = centroidsOf(frame, colorMode)
        /\ Target = domainOf(frame)
        /\ stateAgg = stateAggOver(frame)
        /\ ~last.animStart

\* a state with records in the plot frame has been selected, the effects
\* have run, and the summary scope is narrower than the plot frame
C28_Witness ==
  /\ last.before # None
  /\ ~pending
  /\ selectedStateName # None
  /\ Len(scopeRows) > 0
  /\ Len(scopeRows) < Len(plotFrame)

keysAmong(rs) == {groupKeyOf(rs[i], colorMode) : i \in 1..Len(rs)}

\* C30: every GroupKey that occurs among the records of the summarized
\* scope is in groupKeys; every group of the scope with valid price data
\* has a series in the price histogram, and every group of the scope with
\* records has a point in the attitudes chart.
C30_NoGroupOmitted ==
  LET keys == groupKeys
      summarized == priceRows
      drawn == priceSeries
      points == attitudesPoints
  IN  /\ \A k \in keysAmong(scopeRows) : k \in Range(keys)
      /\ \A k \in keysAmong(summarized) :
           /\ hasPriceData(rowsOfKey(summarized, k, colorMode))
                => \E i \in 1..Len(drawn) : drawn[i].key = k
           /\ \E i \in 1..Len(points) : points[i].key = k

\* a state is selected and the scope, grouped by model, has a price series
\* and an attitude point
C30_Witness ==
  /\ ~pending
  /\ selectedStateName # None
  /\ colorMode = "model"
  /\ Len(priceSeries) > 0
  /\ Len(attitudesPoints) > 0
  /\ Len(scopeRows) < Len(plotFrame)

====
